---- MODULE Spec2Model ----
(***************************************************************************)
(* A model of shark's snapshot transfer protocol (evolve_halos.cpp), of its *)
(* ODE solver wrapper (ode_solver.cpp) and of the drivers its objects own,  *)
(* of its physical model                                                    *)
(* (physical_model.h, physical_model.cpp) and of its stellar feedback       *)
(* (stellar_feedback.cpp).                                                  *)
(*                                                                         *)
(* Masses, rates and times of the transfer protocol and of the solver are  *)
(* integers: every operation modelled there is an addition, a comparison   *)
(* or an assignment, so integer arithmetic keeps the relations the code    *)
(* computes on doubles. The stellar feedback divides, and is computed on   *)
(* exact fractions.                                                        *)
(***************************************************************************)
EXTENDS Integers, Sequences, FiniteSets, TLC

VARIABLES
    subhalos,      \* subhalo id -> Subhalo record
    galaxies,      \* galaxy id  -> Galaxy record
    AllBaryons,    \* the TotalBaryon ledger
    snapshot,      \* the snapshot the main loop is working on
    phase,         \* what the main loop already did in this snapshot
    run,           \* record of the last transfer_galaxies_to_next_snapshot call
    outcome,       \* "ok", or the fatal condition that ended the program
    solver,        \* the ODESolver instance
    result,        \* what the last ODESolver::evolve() call produced
    feedback,      \* the last StellarFeedback::outflow_rate call: inputs and loadings
    evaluation,    \* the last basic_physicalmodel_evaluator call: inputs and derivatives
    subhalo,       \* the Subhalo handed to the physical model
    galaxy,        \* the Galaxy handed to the physical model
    call,          \* record of the last evolve_galaxy / evolve_galaxy_starburst call
    instances,     \* the ODESolver objects of a program that moves and destroys them
    heap           \* the backend drivers allocated so far

treeVars == <<subhalos, galaxies, AllBaryons, snapshot, phase, run, outcome>>
odeVars  == <<solver, result>>
physVars == <<feedback, evaluation, subhalo, galaxy, call>>
ownVars  == <<instances, heap>>
vars     == <<subhalos, galaxies, AllBaryons, snapshot, phase, run, outcome, solver, result,
              feedback, evaluation, subhalo, galaxy, call, instances, heap>>

\* The physical model and the stellar feedback are no part of the behaviours
\* of the transfer protocol and of the solver.
NoPhys ==
    /\ feedback = <<>>
    /\ evaluation = <<>>
    /\ subhalo = <<>>
    /\ galaxy = <<>>
    /\ call = <<>>

\* The objects that own drivers are no part of the other behaviours.
NoInstances ==
    /\ instances = <<>>
    /\ heap = <<>>

----------------------------------------------------------------------------
(* Bounds of the model *)

NSub == 5            \* number of subhalos in the merger tree
NGal == 3            \* number of galaxies
MaxTransfers == 2    \* transfer_galaxies_to_next_snapshot calls on one snapshot

SubhaloIds == 1..NSub
GalaxyIds  == 1..NGal

NoSubhalo == 0       \* a null SubhaloPtr
NoGalaxy  == 0       \* a null GalaxyPtr

\* The snapshot each subhalo of the tree lives in: two subhalos in snapshot
\* 0, one in snapshot 1, the others in snapshot 2.
SnapOf(i) == IF i <= 2 THEN 0 ELSE IF i = 3 THEN 1 ELSE 2
LastSnapshot == SnapOf(NSub)

\* The subhalo a galaxy is created in (all of them in snapshot 0).
HomeOf(g) == IF g <= 2 THEN 1 ELSE 2

----------------------------------------------------------------------------
(* Baryon components *)

Baryon(m, z) == [mass |-> m, mass_metals |-> z]

\* BaryonBase::operator+=
BaryonAdd(a, b) == [mass |-> a.mass + b.mass, mass_metals |-> a.mass_metals + b.mass_metals]

RECURSIVE SeqSum(_)
SeqSum(s) == IF s = <<>> THEN 0 ELSE Head(s) + SeqSum(Tail(s))

----------------------------------------------------------------------------
(* Subhalo helpers *)

\* The ids of a sequence as a set.
Range(s) == {s[k] : k \in 1..Len(s)}

\* The first galaxy of the given type among gs, or NoGalaxy.
RECURSIVE FindGalaxy(_, _, _)
FindGalaxy(gs, gals, type) ==
    IF gs = <<>> THEN NoGalaxy
    ELSE IF gals[Head(gs)].galaxy_type = type THEN Head(gs)
    ELSE FindGalaxy(Tail(gs), gals, type)

central_galaxy(sub, gals) == FindGalaxy(sub.galaxies, gals, "CENTRAL")
type1_galaxy(sub, gals)   == FindGalaxy(sub.galaxies, gals, "TYPE1")

CountType(sub, gals, type) == Cardinality({g \in Range(sub.galaxies) : gals[g].galaxy_type = type})

\* Subhalo::check_subhalo_galaxy_composition: TRUE when the check passes.
check_subhalo_galaxy_composition(sub, gals) ==
    IF sub.subhalo_type = "CENTRAL"
    THEN CountType(sub, gals, "CENTRAL") <= 1 /\ CountType(sub, gals, "TYPE1") = 0
    ELSE CountType(sub, gals, "CENTRAL") = 0 /\ CountType(sub, gals, "TYPE1") <= 1

GalaxyBaryonMass(gal) ==
    gal.disk_stars.mass + gal.disk_gas.mass + gal.bulge_stars.mass + gal.bulge_gas.mass + gal.smbh.mass

\* Subhalo::total_baryon_mass
total_baryon_mass(sub, gals) ==
    sub.cold_halo_gas.mass + sub.hot_halo_gas.mass + sub.ejected_galaxy_gas.mass
    + SeqSum([k \in 1..Len(sub.galaxies) |-> GalaxyBaryonMass(gals[sub.galaxies[k]])])

\* The subhalos of the halos of a snapshot, in the order the loops visit them.
RECURSIVE SubhalosFrom(_, _)
SubhalosFrom(i, s) ==
    IF i > NSub THEN <<>>
    ELSE IF SnapOf(i) = s THEN <<i>> \o SubhalosFrom(i + 1, s)
    ELSE SubhalosFrom(i + 1, s)

all_subhalos(s) == SubhalosFrom(1, s)

----------------------------------------------------------------------------
(* The state after the merger tree was built and galaxies were seeded *)

NoInteraction == [major_mergers |-> 0, minor_mergers |-> 0, disk_instabilities |-> 0]

\* The type of the principal galaxy of a subhalo of the given type.
PrincipalType(subhalo_type) == IF subhalo_type = "CENTRAL" THEN "CENTRAL" ELSE "TYPE1"

\* The galaxies created in subhalo i, in creation order.
RECURSIVE GalaxiesFrom(_, _)
GalaxiesFrom(g, i) ==
    IF g > NGal THEN <<>>
    ELSE IF HomeOf(g) = i THEN <<g>> \o GalaxiesFrom(g + 1, i)
    ELSE GalaxiesFrom(g + 1, i)

\* The descendants the tree builder may have linked subhalo i to: none, or
\* one of the next two subhalos (in the same, the next or a later snapshot).
DescendantChoices(i) ==
    IF SnapOf(i) = LastSnapshot THEN {NoSubhalo}
    ELSE {NoSubhalo} \cup {d \in SubhaloIds : i < d /\ d <= i + 2}

\* Subhalos of the last snapshot alternate in type; the others take any type.
TypeChoices(i) ==
    IF SnapOf(i) = LastSnapshot
    THEN {IF i % 2 = 0 THEN "CENTRAL" ELSE "SATELLITE"}
    ELSE {"CENTRAL", "SATELLITE"}

SubhaloChoices(i) ==
    { [ id                       |-> i,
        snapshot                 |-> SnapOf(i),
        subhalo_type             |-> ty,
        main_progenitor          |-> mp,
        last_snapshot_identified |-> IF last THEN SnapOf(i) ELSE SnapOf(i) + 1,
        descendant               |-> d,
        galaxies                 |-> GalaxiesFrom(1, i),
        cold_halo_gas            |-> Baryon(2 ^ i, 1),
        hot_halo_gas             |-> Baryon(10 * i, i),
        ejected_galaxy_gas       |-> Baryon(100 + i, 2),
        cooling_subhalo_tracking |-> i,
        concentration            |-> 10 + i,
        Mvir                     |-> 100 * i,
        lambda                   |-> i ] :
      ty \in TypeChoices(i), mp \in BOOLEAN, last \in BOOLEAN, d \in DescendantChoices(i) }

\* Flags that no code reads are fixed: main_progenitor of a subhalo without
\* descendant and of a satellite in its last snapshot (such a subhalo merges
\* into another one), last_snapshot_identified of a central subhalo and of
\* the subhalos of the last snapshot, which the main loop never transfers.
RelevantChoices(i) ==
    { c \in SubhaloChoices(i) :
        /\ (c.descendant = NoSubhalo => ~c.main_progenitor)
        /\ (c.last_snapshot_identified = c.snapshot => ~c.main_progenitor)
        /\ (c.subhalo_type = "CENTRAL" => c.last_snapshot_identified # c.snapshot)
        /\ (c.snapshot = LastSnapshot => c.last_snapshot_identified # c.snapshot) }

RECURSIVE SubhaloTables(_)
SubhaloTables(n) ==
    IF n = 0 THEN {<<>>}
    ELSE {Append(t, c) : t \in SubhaloTables(n - 1), c \in RelevantChoices(n)}

InitGalaxy(g, subs) ==
    [ galaxy_type         |-> IF GalaxiesFrom(1, HomeOf(g))[1] = g
                              THEN PrincipalType(subs[HomeOf(g)].subhalo_type)
                              ELSE "TYPE2",
      disk_stars          |-> Baryon(g, 0),
      disk_gas            |-> Baryon(2 * g, 1),
      bulge_stars         |-> Baryon(0, 0),
      bulge_gas           |-> Baryon(0, 0),
      smbh                |-> Baryon(1, 0),
      galaxymergers_burst_stars     |-> Baryon(0, 0),
      diskinstabilities_burst_stars |-> Baryon(0, 0),
      sfr_disk            |-> 0,
      sfr_z_disk          |-> 0,
      sfr_bulge_mergers   |-> 0,
      sfr_z_bulge_mergers |-> 0,
      sfr_bulge_diskins   |-> 0,
      sfr_z_bulge_diskins |-> 0,
      interaction         |-> NoInteraction,
      mean_stellar_age    |-> 0,
      total_stellar_mass_ever_formed |-> 0,
      history             |-> <<>>,
      concentration_type2 |-> 0,
      msubhalo_type2      |-> 0,
      lambda_type2        |-> 0 ]

EmptyLedger ==
    [ mstars |-> <<>>, mstars_burst_galaxymergers |-> <<>>, mstars_burst_diskinstabilities |-> <<>>,
      mcold |-> <<>>, mBH |-> <<>>, SFR_disk |-> <<>>, SFR_bulge |-> <<>>,
      major_mergers |-> <<>>, minor_mergers |-> <<>>, disk_instabil |-> <<>>,
      mhot_halo |-> <<>>, mcold_halo |-> <<>>, mejected_halo |-> <<>>,
      baryon_total_lost |-> [s \in 0..LastSnapshot |-> [present |-> FALSE, value |-> 0]] ]

NoRun == [ calls |-> 0, snapshot |-> 0, outcome |-> "none", failed_at |-> NoSubhalo,
           transferred |-> {}, moves |-> [g \in GalaxyIds |-> 0],
           pre_subhalos |-> <<>>, pre_galaxies |-> <<>>, pre_ledger |-> <<>> ]

NoAccumulation == [SFR_disk |-> 0, SFR_bulge |-> 0, major_mergers |-> 0,
                   minor_mergers |-> 0, disk_instabil |-> 0]

\* What the main loop did in the current snapshot: whether the galaxies were
\* evolved and what they accumulated, whether the accounting pass ran and
\* after how many transfers, and the number of transfers.
NewPhase == [evolved |-> FALSE, accumulated |-> NoAccumulation, tracked |-> FALSE,
             tracked_after |-> 0, transfers |-> 0]

----------------------------------------------------------------------------
(* evolve_halos.cpp: adjust_main_galaxy *)

\* adjust_main_galaxy that takes every subhalo for the main progenitor of its
\* descendant.
adjust_main_galaxy_always_main(gals, parent, descendant) ==
    LET parent_is_central  == parent.subhalo_type = "CENTRAL"
        desc_is_central    == descendant.subhalo_type = "CENTRAL"
        main_galaxy == IF parent_is_central THEN central_galaxy(parent, gals)
                                            ELSE type1_galaxy(parent, gals)
        new_type    == IF desc_is_central THEN "CENTRAL" ELSE "TYPE1"
    IN  IF main_galaxy = NoGalaxy THEN gals
        ELSE [gals EXCEPT ![main_galaxy] = [@ EXCEPT !.galaxy_type = new_type]]

\* adjust_main_galaxy that takes the first galaxy of the subhalo for its
\* principal galaxy.
adjust_main_galaxy_first(gals, parent, descendant) ==
    LET desc_is_central    == descendant.subhalo_type = "CENTRAL"
        is_main_progenitor == parent.main_progenitor
        main_galaxy == IF parent.galaxies = <<>> THEN NoGalaxy ELSE Head(parent.galaxies)
        new_type    == IF desc_is_central
                       THEN (IF is_main_progenitor THEN "CENTRAL" ELSE "TYPE2")
                       ELSE (IF is_main_progenitor THEN "TYPE1" ELSE "TYPE2")
    IN  IF main_galaxy = NoGalaxy THEN gals
        ELSE IF new_type = "TYPE2"
        THEN [gals EXCEPT ![main_galaxy] =
                 [@ EXCEPT !.galaxy_type         = new_type,
                           !.concentration_type2 = parent.concentration,
                           !.msubhalo_type2      = parent.Mvir,
                           !.lambda_type2        = parent.lambda]]
        ELSE [gals EXCEPT ![main_galaxy] = [@ EXCEPT !.galaxy_type = new_type]]

\* adjust_main_galaxy that hands the properties of the subhalo to its
\* principal galaxy whatever the new type is.
adjust_main_galaxy_always_inherits(gals, parent, descendant) ==
    LET parent_is_central  == parent.subhalo_type = "CENTRAL"
        desc_is_central    == descendant.subhalo_type = "CENTRAL"
        is_main_progenitor == parent.main_progenitor
        main_galaxy == IF parent_is_central THEN central_galaxy(parent, gals)
                                            ELSE type1_galaxy(parent, gals)
        new_type    == IF desc_is_central
                       THEN (IF is_main_progenitor THEN "CENTRAL" ELSE "TYPE2")
                       ELSE (IF is_main_progenitor THEN "TYPE1" ELSE "TYPE2")
    IN  IF main_galaxy = NoGalaxy THEN gals
        ELSE [gals EXCEPT ![main_galaxy] =
                 [@ EXCEPT !.galaxy_type         = new_type,
                           !.concentration_type2 = parent.concentration,
                           !.msubhalo_type2      = parent.Mvir,
                           !.lambda_type2        = parent.lambda]]

\* adjust_main_galaxy with the two types of the satellite descendant exchanged.
adjust_main_galaxy_swapped(gals, parent, descendant) ==
    LET parent_is_central  == parent.subhalo_type = "CENTRAL"
        desc_is_central    == descendant.subhalo_type = "CENTRAL"
        is_main_progenitor == parent.main_progenitor
        main_galaxy == IF parent_is_central THEN central_galaxy(parent, gals)
                                            ELSE type1_galaxy(parent, gals)
        new_type    == IF desc_is_central
                       THEN (IF is_main_progenitor THEN "CENTRAL" ELSE "TYPE2")
                       ELSE (IF is_main_progenitor THEN "TYPE2" ELSE "TYPE1")
    IN  IF main_galaxy = NoGalaxy THEN gals
        ELSE IF new_type = "TYPE2"
        THEN [gals EXCEPT ![main_galaxy] =
                 [@ EXCEPT !.galaxy_type         = new_type,
                           !.concentration_type2 = parent.concentration,
                           !.msubhalo_type2      = parent.Mvir,
                           !.lambda_type2        = parent.lambda]]
        ELSE [gals EXCEPT ![main_galaxy] = [@ EXCEPT !.galaxy_type = new_type]]

\* The galaxy table after adjust_main_galaxy(parent, descendant).
adjust_main_galaxy(gals, parent, descendant) ==
    LET parent_is_central  == parent.subhalo_type = "CENTRAL"
        desc_is_central    == descendant.subhalo_type = "CENTRAL"
        is_main_progenitor == parent.main_progenitor
        main_galaxy == IF parent_is_central THEN central_galaxy(parent, gals)
                                            ELSE type1_galaxy(parent, gals)
        new_type    == IF desc_is_central
                       THEN (IF is_main_progenitor THEN "CENTRAL" ELSE "TYPE2")
                       ELSE (IF is_main_progenitor THEN "TYPE1" ELSE "TYPE2")
    IN  IF main_galaxy = NoGalaxy THEN gals
        ELSE IF new_type = "TYPE2"
        THEN [gals EXCEPT ![main_galaxy] =
                 [@ EXCEPT !.galaxy_type         = new_type,
                           !.concentration_type2 = parent.concentration,
                           !.msubhalo_type2      = parent.Mvir,
                           !.lambda_type2        = parent.lambda]]
        ELSE [gals EXCEPT ![main_galaxy] = [@ EXCEPT !.galaxy_type = new_type]]

----------------------------------------------------------------------------
(* evolve_halos.cpp: transfer_galaxies_to_next_snapshot *)

\* The first loop: every descendant is empty.
descendants_empty(subs, order) ==
    \A k \in 1..Len(order) :
        subs[order[k]].descendant # NoSubhalo
            => Len(subs[subs[order[k]].descendant].galaxies) = 0

\* reset_sfr without the reset of the interaction counters.
reset_sfr_keep_interaction(gals, gs) ==
    [g \in DOMAIN gals |->
        IF g \in Range(gs)
        THEN [gals[g] EXCEPT !.sfr_bulge_mergers   = 0,
                             !.sfr_z_bulge_mergers = 0,
                             !.sfr_bulge_diskins   = 0,
                             !.sfr_z_bulge_diskins = 0,
                             !.sfr_z_disk          = 0,
                             !.sfr_disk            = 0]
        ELSE gals[g]]

\* Lines 85-94: the star formation rates and the interaction counters of the
\* galaxies gs are set to zero.
reset_sfr(gals, gs) ==
    [g \in DOMAIN gals |->
        IF g \in Range(gs)
        THEN [gals[g] EXCEPT !.sfr_bulge_mergers   = 0,
                             !.sfr_z_bulge_mergers = 0,
                             !.sfr_bulge_diskins   = 0,
                             !.sfr_z_bulge_diskins = 0,
                             !.sfr_z_disk          = 0,
                             !.sfr_disk            = 0,
                             !.interaction         = NoInteraction]
        ELSE gals[g]]

\* Subhalo::transfer_galaxies_to: the galaxies of subhalo i go to the end of
\* the galaxies of subhalo d, and subhalo i keeps none.
transfer_galaxies_to(subs, i, d) ==
    [subs EXCEPT ![d].galaxies = @ \o subs[i].galaxies,
                 ![i].galaxies = <<>>]

\* transfer_baryons that takes the cooling tracking of every progenitor.
transfer_baryons_track_all(subs, i, d) ==
    [subs EXCEPT ![d] =
        [@ EXCEPT !.cold_halo_gas      = BaryonAdd(@, subs[i].cold_halo_gas),
                  !.hot_halo_gas       = BaryonAdd(@, subs[i].hot_halo_gas),
                  !.ejected_galaxy_gas = BaryonAdd(@, subs[i].ejected_galaxy_gas),
                  !.cooling_subhalo_tracking = subs[i].cooling_subhalo_tracking]]

\* transfer_baryons without the transfer of the ejected gas.
transfer_baryons_no_ejected(subs, i, d) ==
    [subs EXCEPT ![d] =
        [@ EXCEPT !.cold_halo_gas      = BaryonAdd(@, subs[i].cold_halo_gas),
                  !.hot_halo_gas       = BaryonAdd(@, subs[i].hot_halo_gas),
                  !.cooling_subhalo_tracking =
                        IF subs[i].main_progenitor
                        THEN subs[i].cooling_subhalo_tracking ELSE @]]

\* Lines 128-133: the reservoirs of subhalo i are added to those of subhalo d.
transfer_baryons(subs, i, d) ==
    [subs EXCEPT ![d] =
        [@ EXCEPT !.cold_halo_gas      = BaryonAdd(@, subs[i].cold_halo_gas),
                  !.hot_halo_gas       = BaryonAdd(@, subs[i].hot_halo_gas),
                  !.ejected_galaxy_gas = BaryonAdd(@, subs[i].ejected_galaxy_gas),
                  !.cooling_subhalo_tracking =
                        IF subs[i].main_progenitor
                        THEN subs[i].cooling_subhalo_tracking ELSE @]]

\* is_skipped with the last snapshot taken one too late.
is_skipped_late(sub) ==
    sub.subhalo_type = "SATELLITE" /\ sub.last_snapshot_identified = sub.snapshot + 1

\* Whether the loop skips the subhalo (line 99).
is_skipped(sub) ==
    sub.subhalo_type = "SATELLITE" /\ sub.last_snapshot_identified = sub.snapshot

\* in_subsequent_snapshot accepting any later snapshot.
in_later_snapshot(sub, desc) == sub.snapshot < desc.snapshot

\* in_subsequent_snapshot accepting the same snapshot too.
in_same_or_subsequent_snapshot(sub, desc) ==
    sub.snapshot = desc.snapshot \/ sub.snapshot = desc.snapshot - 1

\* Whether the descendant is in the subsequent snapshot (line 111).
in_subsequent_snapshot(sub, desc) == ~(sub.snapshot # desc.snapshot - 1)

\* One iteration of the second loop (lines 82-135), on subhalo i. st holds the
\* tables and the locals of the function; an exception ends the loop with
\* what was written so far.
transfer_subhalo(st, i) ==
    LET gals1 == reset_sfr(st.gals, st.subs[i].galaxies)
        sub   == st.subs[i]
        d     == sub.descendant
    IN  IF is_skipped(sub)
        THEN [st EXCEPT !.gals = gals1]
        ELSE IF d = NoSubhalo
        THEN [st EXCEPT !.gals = gals1,
                        !.subhalos_without_descendant = @ + 1,
                        !.baryon_mass_loss = @ + total_baryon_mass(sub, gals1)]
        ELSE IF ~in_subsequent_snapshot(sub, st.subs[d])
        THEN [st EXCEPT !.gals = gals1, !.outcome = "invalid_argument", !.failed_at = i]
        ELSE IF ~check_subhalo_galaxy_composition(sub, gals1)
        THEN [st EXCEPT !.gals = gals1, !.outcome = "invalid_data", !.failed_at = i]
        ELSE [st EXCEPT !.gals = adjust_main_galaxy(gals1, sub, st.subs[d]),
                        !.subs = transfer_baryons(transfer_galaxies_to(st.subs, i, d), i, d),
                        !.transferred = @ \cup {i},
                        !.moves = [g \in DOMAIN @ |->
                                      IF g \in Range(sub.galaxies) THEN @[g] + 1 ELSE @[g]]]

RECURSIVE transfer_loop(_, _)
transfer_loop(st, order) ==
    IF order = <<>> \/ st.outcome # "ok" THEN st
    ELSE transfer_loop(transfer_subhalo(st, Head(order)), Tail(order))

\* The third loop (lines 139-146): the first subhalo whose descendant is not
\* correctly composed, or NoSubhalo.
RECURSIVE first_bad_descendant(_, _, _)
first_bad_descendant(subs, gals, order) ==
    IF order = <<>> THEN NoSubhalo
    ELSE IF /\ subs[Head(order)].descendant # NoSubhalo
            /\ ~check_subhalo_galaxy_composition(subs[subs[Head(order)].descendant], gals)
         THEN Head(order)
         ELSE first_bad_descendant(subs, gals, Tail(order))

\* record_lost writing the number of subhalos in place of the mass.
record_lost_count(ledger, snap, subhalos_without_descendant, baryon_mass_loss) ==
    IF subhalos_without_descendant # 0
    THEN [ledger EXCEPT !.baryon_total_lost[snap] =
                            [present |-> TRUE, value |-> subhalos_without_descendant]]
    ELSE ledger

\* Lines 148-151: the mass lost with the subhalos without descendant is
\* written to the ledger when there was any such subhalo.
record_lost(ledger, snap, subhalos_without_descendant, baryon_mass_loss) ==
    IF subhalos_without_descendant # 0
    THEN [ledger EXCEPT !.baryon_total_lost[snap] =
                            [present |-> TRUE, value |-> baryon_mass_loss]]
    ELSE ledger

\* The whole call on the halos of snapshot snap: the tables, the ledger and the
\* way the call ended.
transfer_galaxies_to_next_snapshot(subs, gals, ledger, snap, ndebug) ==
    LET order == all_subhalos(snap)
        st0 == [ subs |-> subs, gals |-> gals, ledger |-> ledger,
                 subhalos_without_descendant |-> 0, baryon_mass_loss |-> 0,
                 outcome |-> "ok", failed_at |-> NoSubhalo,
                 transferred |-> {}, moves |-> [g \in DOMAIN gals |-> 0] ]
    IN  IF ~ndebug /\ ~descendants_empty(subs, order)
        THEN [st0 EXCEPT !.outcome = "assertion_failed"]
        ELSE LET st1 == transfer_loop(st0, order)
                 bad == first_bad_descendant(st1.subs, st1.gals, order)
             IN  IF st1.outcome # "ok" THEN st1
                 ELSE IF bad # NoSubhalo
                 THEN [st1 EXCEPT !.outcome = "invalid_data", !.failed_at = bad]
                 ELSE [st1 EXCEPT !.ledger = record_lost(st1.ledger, snap,
                                    st1.subhalos_without_descendant, st1.baryon_mass_loss)]

----------------------------------------------------------------------------
(* evolve_halos.cpp: track_total_baryons *)

\* The galaxies of the subhalos in order, in the order the loops visit them.
RECURSIVE galaxies_of(_, _)
galaxies_of(subs, order) ==
    IF order = <<>> THEN <<>>
    ELSE subs[Head(order)].galaxies \o galaxies_of(subs, Tail(order))

\* Lines 207-221: the star formation history of every galaxy in gs is extended.
write_history(gals, gs, snap, deltat, mean_age) ==
    [g \in DOMAIN gals |->
        IF g \in Range(gs)
        THEN LET formed == (gals[g].sfr_disk + gals[g].sfr_bulge_mergers
                            + gals[g].sfr_bulge_diskins) * deltat
             IN [gals[g] EXCEPT
                    !.mean_stellar_age = @ + formed * mean_age,
                    !.total_stellar_mass_ever_formed = @ + formed,
                    !.history = Append(@,
                        [ sfr_disk            |-> gals[g].sfr_disk,
                          sfr_bulge_mergers   |-> gals[g].sfr_bulge_mergers,
                          sfr_bulge_diskins   |-> gals[g].sfr_bulge_diskins,
                          sfr_z_disk          |-> gals[g].sfr_z_disk,
                          sfr_z_bulge_mergers |-> gals[g].sfr_z_bulge_mergers,
                          sfr_z_bulge_diskins |-> gals[g].sfr_z_bulge_diskins,
                          snapshot            |-> snap ])]
        ELSE gals[g]]

\* The whole call on the halos of snapshot snap: the ledger with one entry
\* appended to each of its series, and the galaxy table. The atomic and
\* molecular hydrogen and the dark matter series sum inputs of the call that
\* are no part of the state modelled here.
track_total_baryons(subs, gals, ledger, snap, output_sf_histories, deltat, mean_age) ==
    LET order == all_subhalos(snap)
        gs    == galaxies_of(subs, order)
        SumS(f(_)) == SeqSum([k \in 1..Len(order) |-> f(subs[order[k]])])
        SumG(f(_)) == SeqSum([k \in 1..Len(gs) |-> f(gals[gs[k]])])
        hot_m(x) == x.hot_halo_gas.mass
        hot_z(x) == x.hot_halo_gas.mass_metals
        cold_m(x) == x.cold_halo_gas.mass
        cold_z(x) == x.cold_halo_gas.mass_metals
        ej_m(x) == x.ejected_galaxy_gas.mass
        ej_z(x) == x.ejected_galaxy_gas.mass_metals
        major(x) == x.interaction.major_mergers
        minor(x) == x.interaction.minor_mergers
        instab(x) == x.interaction.disk_instabilities
        gas_m(x) == x.disk_gas.mass + x.bulge_gas.mass
        gas_z(x) == x.disk_gas.mass_metals + x.bulge_gas.mass_metals
        star_m(x) == x.disk_stars.mass + x.bulge_stars.mass
        star_z(x) == x.disk_stars.mass_metals + x.bulge_stars.mass_metals
        bm_m(x) == x.galaxymergers_burst_stars.mass
        bm_z(x) == x.galaxymergers_burst_stars.mass_metals
        bd_m(x) == x.diskinstabilities_burst_stars.mass
        bd_z(x) == x.diskinstabilities_burst_stars.mass_metals
        sfr_d(x) == x.sfr_disk
        sfr_b(x) == x.sfr_bulge_mergers + x.sfr_bulge_diskins
        bh_m(x) == x.smbh.mass
    IN  [ gals   |-> IF output_sf_histories
                     THEN write_history(gals, gs, snap, deltat, mean_age) ELSE gals,
          ledger |-> [ledger EXCEPT
              !.mstars = Append(@, Baryon(SumG(star_m), SumG(star_z))),
              !.mstars_burst_galaxymergers = Append(@, Baryon(SumG(bm_m), SumG(bm_z))),
              !.mstars_burst_diskinstabilities = Append(@, Baryon(SumG(bd_m), SumG(bd_z))),
              !.mcold = Append(@, Baryon(SumG(gas_m), SumG(gas_z))),
              !.mBH = Append(@, Baryon(SumG(bh_m), 0)),
              !.SFR_disk = Append(@, SumG(sfr_d)),
              !.SFR_bulge = Append(@, SumG(sfr_b)),
              !.major_mergers = Append(@, SumG(major)),
              !.minor_mergers = Append(@, SumG(minor)),
              !.disk_instabil = Append(@, SumG(instab)),
              !.mhot_halo = Append(@, Baryon(SumS(hot_m), SumS(hot_z))),
              !.mcold_halo = Append(@, Baryon(SumS(cold_m), SumS(cold_z))),
              !.mejected_halo = Append(@, Baryon(SumS(ej_m), SumS(ej_z)))] ]

----------------------------------------------------------------------------
(* The evolution of the galaxies of a snapshot, as far as the accounting sees it *)

\* physical_model.cpp, to_galaxy and to_galaxy_starburst: a galaxy's disk
\* forms stars, and a burst triggered by a merger (by_merger) or by a disk
\* instability forms stars in its bulge; the event is counted in the
\* galaxy's interaction record.
evolve_galaxy(gal, sfr, by_merger) ==
    LET disk == [gal EXCEPT !.sfr_disk = @ + sfr, !.sfr_z_disk = @ + 1]
    IN  IF by_merger
        THEN [disk EXCEPT !.sfr_bulge_mergers = @ + 2 * sfr,
                          !.sfr_z_bulge_mergers = @ + 1,
                          !.interaction.minor_mergers = @ + 1]
        ELSE [disk EXCEPT !.sfr_bulge_diskins = @ + 3 * sfr,
                          !.sfr_z_bulge_diskins = @ + 1,
                          !.interaction.disk_instabilities = @ + 1]

----------------------------------------------------------------------------
(* The main loop over the snapshots *)

Init ==
    /\ subhalos \in SubhaloTables(NSub)
    /\ galaxies = [g \in GalaxyIds |-> InitGalaxy(g, subhalos)]
    /\ AllBaryons = EmptyLedger
    /\ snapshot = 0
    /\ phase = NewPhase
    /\ run = NoRun
    /\ outcome = "ok"
    /\ solver = <<>>
    /\ result = <<>>
    /\ NoPhys
    /\ NoInstances

\* Every galaxy of the snapshot is evolved over the snapshot's time step;
\* galaxies with an odd id have a merger, the others a disk instability.
EvolveGalaxies ==
    /\ outcome = "ok"
    /\ snapshot < LastSnapshot
    /\ ~phase.evolved
    /\ LET gs == galaxies_of(subhalos, all_subhalos(snapshot))
           evolved(g) == evolve_galaxy(galaxies[g], g, g % 2 = 1)
           Gain(f(_)) == SeqSum([k \in 1..Len(gs) |-> f(evolved(gs[k])) - f(galaxies[gs[k]])])
           sfr_d(x) == x.sfr_disk
           sfr_b(x) == x.sfr_bulge_mergers + x.sfr_bulge_diskins
           major(x) == x.interaction.major_mergers
           minor(x) == x.interaction.minor_mergers
           instab(x) == x.interaction.disk_instabilities
       IN  /\ galaxies' = [g \in GalaxyIds |->
                              IF g \in Range(gs) THEN evolved(g) ELSE galaxies[g]]
           /\ phase' = [phase EXCEPT
                  !.evolved = TRUE,
                  !.accumulated = [ SFR_disk |-> Gain(sfr_d), SFR_bulge |-> Gain(sfr_b),
                                    major_mergers |-> Gain(major),
                                    minor_mergers |-> Gain(minor),
                                    disk_instabil |-> Gain(instab) ]]
    /\ UNCHANGED <<subhalos, AllBaryons, snapshot, run, outcome, solver, result>>
    /\ UNCHANGED physVars
    /\ UNCHANGED ownVars

\* The run is configured to record the star formation histories.
output_sf_histories == TRUE

\* track_total_baryons(halos of snapshot, AllBaryons, snapshot, deltat), with a
\* time step of 1 and the mean age the cosmology gives the snapshot.
TrackTotalBaryons ==
    /\ outcome = "ok"
    /\ phase.evolved
    /\ ~phase.tracked
    /\ LET r == track_total_baryons(subhalos, galaxies, AllBaryons, snapshot,
                                    output_sf_histories, 1, snapshot + 1)
       IN  /\ galaxies' = r.gals
           /\ AllBaryons' = r.ledger
    /\ phase' = [phase EXCEPT !.tracked = TRUE, !.tracked_after = phase.transfers]
    /\ UNCHANGED <<subhalos, snapshot, run, outcome, solver, result>>
    /\ UNCHANGED physVars
    /\ UNCHANGED ownVars

\* transfer_galaxies_to_next_snapshot(halos of snapshot, snapshot, AllBaryons),
\* in a build that keeps assert() or in one that compiles it away.
TransferGalaxies ==
    /\ outcome = "ok"
    /\ phase.evolved
    /\ phase.transfers < MaxTransfers
    /\ \E ndebug \in BOOLEAN :
        LET r == transfer_galaxies_to_next_snapshot(subhalos, galaxies, AllBaryons,
                                                    snapshot, ndebug)
        IN  /\ subhalos' = r.subs
            /\ galaxies' = r.gals
            /\ AllBaryons' = r.ledger
            /\ outcome' = r.outcome
            /\ run' = [ calls |-> run.calls + 1, snapshot |-> snapshot,
                        outcome |-> r.outcome, failed_at |-> r.failed_at,
                        transferred |-> r.transferred, moves |-> r.moves,
                        pre_subhalos |-> subhalos, pre_galaxies |-> galaxies,
                        pre_ledger |-> AllBaryons ]
    /\ phase' = [phase EXCEPT !.transfers = @ + 1]
    /\ UNCHANGED <<snapshot, solver, result>>
    /\ UNCHANGED physVars
    /\ UNCHANGED ownVars

\* The loop goes on to the next snapshot; it ends at the last snapshot, which
\* has no subsequent one.
NextSnapshot ==
    /\ outcome = "ok"
    /\ phase.tracked
    /\ phase.transfers >= 1
    /\ snapshot < LastSnapshot
    /\ snapshot' = snapshot + 1
    /\ phase' = NewPhase
    /\ UNCHANGED <<subhalos, galaxies, AllBaryons, run, outcome, solver, result>>
    /\ UNCHANGED physVars
    /\ UNCHANGED ownVars

Next == EvolveGalaxies \/ TrackTotalBaryons \/ TransferGalaxies \/ NextSnapshot

Spec == Init /\ [][Next]_vars

----------------------------------------------------------------------------
(* ode_solver.cpp: ODESolver *)

MaxSteps  == 3       \* calls of evolve() on one solver
MaxDeltaT == 2       \* the largest macro step, in ticks of the time axis

\* The statuses gsl_odeiv2_driver_apply may report: success, the three the
\* solver forces to completion, the evaluator's failure, and two others.
SoftStatuses  == {"GSL_FAILURE", "GSL_ENOPROG", "GSL_EMAXITER"}
OtherStatuses == {"GSL_EFAULT", "GSL_EINVAL"}
Statuses == {"GSL_SUCCESS", "GSL_EBADFUNC"} \cup SoftStatuses \cup OtherStatuses

\* The text gsl_strerror gives for a status.
gsl_strerror(status) ==
    CASE status = "GSL_EFAULT" -> "invalid pointer"
      [] status = "GSL_EINVAL" -> "invalid argument supplied by user"
      [] OTHER -> "unknown error code"

\* gsl_odeiv2_driver_alloc_y_new and gsl_odeiv2_driver_reset: a driver that
\* has taken no step since it was allocated or reset.
fresh_driver(n) == [n |-> n, fresh |-> TRUE]

\* ODESolver::ODESolver(y0, t0, delta_t, precision, evaluator)
ODESolver(y0, t0, delta_t) ==
    [ y |-> y0, t |-> t0, t0 |-> t0, delta_t |-> delta_t, step |-> 0,
      driver |-> fresh_driver(0) ]

\* The evaluator of the system dy/dt = 1 integrated over dt, on every component.
integrate(y, dt) == [k \in DOMAIN y |-> y[k] + dt]

\* gsl_odeiv2_driver_apply(driver, &t, t1, y): the outcomes the backend may
\* produce. On success the time is t1, reached in any number of sub-steps.
\* On any other status the time and the state are those of the last sub-step
\* that succeeded, which lies before t1; the step ceiling and the minimum
\* step size are tested after a sub-step, so they may also be reported at t1.
gsl_odeiv2_driver_apply(driver, t, t1, y) ==
    { [ status |-> "GSL_SUCCESS", t |-> t1, y |-> integrate(y, t1 - t),
        driver |-> [n |-> driver.n + k, fresh |-> FALSE] ] : k \in 1..(t1 - t) }
    \cup
    UNION { { [ status |-> st, t |-> tr, y |-> integrate(y, tr - t),
                driver |-> [n |-> driver.n + (tr - t), fresh |-> FALSE] ] :
              tr \in {x \in t..t1 : x < t1 \/ st \in {"GSL_ENOPROG", "GSL_EMAXITER"}} } :
            st \in Statuses \ {"GSL_SUCCESS"} }

\* What a call produced, with the number of the call, the time t_i it gave
\* the backend as its target, and the numbers of the calls that threw.
NoResult == [kind |-> "none", status |-> "none", y |-> <<>>, what |-> <<>>,
             calls |-> 0, t_i |-> 0, failed |-> {}]

\* evolve() counting no step for a call that throws.
evolve_retry(s, applied) ==
    LET s1 == [s EXCEPT !.step = s.step + 1, !.t = applied.t, !.y = applied.y,
                        !.driver = applied.driver]
        s0 == [s1 EXCEPT !.step = s.step]
        status == applied.status
        returned == [kind |-> "returned", status |-> status, y |-> s1.y, what |-> <<>>]
        thrown(text) == [kind |-> "math_error", status |-> status, y |-> <<>>,
                         what |-> <<"Error while solving ODE system: ">> \o text]
    IN  IF status = "GSL_SUCCESS" THEN [solver |-> s1, result |-> returned]
        ELSE IF status = "GSL_FAILURE" THEN [solver |-> s1, result |-> returned]
        ELSE IF status = "GSL_ENOPROG" THEN [solver |-> s1, result |-> returned]
        ELSE IF status = "GSL_EBADFUNC"
        THEN [ solver |-> [s0 EXCEPT !.driver = fresh_driver(s0.driver.n)],
               result |-> thrown(<<"user function signaled an error">>) ]
        ELSE IF status = "GSL_EMAXITER" THEN [solver |-> s1, result |-> returned]
        ELSE [ solver |-> s0,
               result |-> thrown(<<"unexpected GSL error: ", gsl_strerror(status)>>) ]

\* evolve() raising an error when the step ceiling is reached.
evolve_maxiter_throws(s, applied) ==
    LET s1 == [s EXCEPT !.step = s.step + 1, !.t = applied.t, !.y = applied.y,
                        !.driver = applied.driver]
        status == applied.status
        returned == [kind |-> "returned", status |-> status, y |-> s1.y, what |-> <<>>]
        thrown(text) == [kind |-> "math_error", status |-> status, y |-> <<>>,
                         what |-> <<"Error while solving ODE system: ">> \o text]
    IN  IF status = "GSL_SUCCESS" THEN [solver |-> s1, result |-> returned]
        ELSE IF status = "GSL_FAILURE" THEN [solver |-> s1, result |-> returned]
        ELSE IF status = "GSL_ENOPROG" THEN [solver |-> s1, result |-> returned]
        ELSE IF status = "GSL_EBADFUNC"
        THEN [ solver |-> [s1 EXCEPT !.driver = fresh_driver(s1.driver.n)],
               result |-> thrown(<<"user function signaled an error">>) ]
        ELSE IF status = "GSL_EMAXITER"
        THEN [solver |-> s1, result |-> thrown(<<"maximum number of steps reached">>)]
        ELSE [ solver |-> s1,
               result |-> thrown(<<"unexpected GSL error: ", gsl_strerror(status)>>) ]

\* evolve() leaving the driver as it is when the evaluator failed.
evolve_no_reset(s, applied) ==
    LET s1 == [s EXCEPT !.step = s.step + 1, !.t = applied.t, !.y = applied.y,
                        !.driver = applied.driver]
        status == applied.status
        returned == [kind |-> "returned", status |-> status, y |-> s1.y, what |-> <<>>]
        thrown(text) == [kind |-> "math_error", status |-> status, y |-> <<>>,
                         what |-> <<"Error while solving ODE system: ">> \o text]
    IN  IF status = "GSL_SUCCESS" THEN [solver |-> s1, result |-> returned]
        ELSE IF status = "GSL_FAILURE" THEN [solver |-> s1, result |-> returned]
        ELSE IF status = "GSL_ENOPROG" THEN [solver |-> s1, result |-> returned]
        ELSE IF status = "GSL_EBADFUNC"
        THEN [ solver |-> s1,
               result |-> thrown(<<"user function signaled an error">>) ]
        ELSE IF status = "GSL_EMAXITER" THEN [solver |-> s1, result |-> returned]
        ELSE [ solver |-> s1,
               result |-> thrown(<<"unexpected GSL error: ", gsl_strerror(status)>>) ]

\* ODESolver::evolve(), given what the backend did: the solver afterwards and
\* what the call produced, a returned vector or a thrown math_error.
evolve(s, applied) ==
    LET s1 == [s EXCEPT !.step = s.step + 1, !.t = applied.t, !.y = applied.y,
                        !.driver = applied.driver]
        status == applied.status
        returned == [kind |-> "returned", status |-> status, y |-> s1.y, what |-> <<>>]
        thrown(text) == [kind |-> "math_error", status |-> status, y |-> <<>>,
                         what |-> <<"Error while solving ODE system: ">> \o text]
    IN  IF status = "GSL_SUCCESS" THEN [solver |-> s1, result |-> returned]
        ELSE IF status = "GSL_FAILURE" THEN [solver |-> s1, result |-> returned]
        ELSE IF status = "GSL_ENOPROG" THEN [solver |-> s1, result |-> returned]
        ELSE IF status = "GSL_EBADFUNC"
        THEN [ solver |-> [s1 EXCEPT !.driver = fresh_driver(s1.driver.n)],
               result |-> thrown(<<"user function signaled an error">>) ]
        ELSE IF status = "GSL_EMAXITER" THEN [solver |-> s1, result |-> returned]
        ELSE [ solver |-> s1,
               result |-> thrown(<<"unexpected GSL error: ", gsl_strerror(status)>>) ]

\* The tree is no part of the solver's behaviours.
NoTree ==
    /\ subhalos = <<>>
    /\ galaxies = <<>>
    /\ AllBaryons = <<>>
    /\ snapshot = 0
    /\ phase = NewPhase
    /\ run = NoRun
    /\ outcome = "ok"

InitODE ==
    /\ NoTree
    /\ NoPhys
    /\ NoInstances
    /\ \E y0 \in {<<0>>, <<5, 7>>}, t0 \in 0..1, delta_t \in 1..MaxDeltaT :
          solver = ODESolver(y0, t0, delta_t)
    /\ result = NoResult

\* One call of evolve(): the step counter advances and the backend integrates
\* towards t0 + step*delta_t.
Evolve ==
    /\ result.calls < MaxSteps
    /\ LET t_i == solver.t0 + (solver.step + 1) * solver.delta_t
       IN  \E applied \in gsl_odeiv2_driver_apply(solver.driver, solver.t, t_i, solver.y) :
              LET r == evolve(solver, applied)
              IN  /\ solver' = r.solver
                  /\ result' = [ kind |-> r.result.kind, status |-> r.result.status,
                                 y |-> r.result.y, what |-> r.result.what,
                                 calls |-> result.calls + 1, t_i |-> t_i,
                                 failed |-> IF r.result.kind = "returned" THEN result.failed
                                            ELSE result.failed \cup {result.calls + 1} ]
    /\ UNCHANGED treeVars
    /\ UNCHANGED physVars
    /\ UNCHANGED ownVars

NextODE == Evolve

SpecODE == InitODE /\ [][NextODE]_vars

----------------------------------------------------------------------------
(* ode_solver.cpp: the ODESolver objects and the drivers they own *)

MaxInstances == 3    \* ODESolver objects of one program

Slots == 1..MaxInstances

NullDriver == 0      \* an empty std::unique_ptr<gsl_odeiv2_driver>

\* gsl_odeiv2_driver_alloc_y_new: a new driver on the heap, which records
\* for each driver the object that allocated it and how often it was freed.
gsl_odeiv2_driver_alloc_y_new(h, by) ==
    [heap |-> Append(h, [by |-> by, frees |-> 0]), driver |-> Len(h) + 1]

\* gsl_odeiv2_driver_free
gsl_odeiv2_driver_free(h, d) == [h EXCEPT ![d].frees = @ + 1]

\* Storage in which no object was constructed yet, and storage whose object
\* was destroyed.
Unborn == [state |-> "unborn"]
Destroyed == [state |-> "destroyed"]

\* ODESolver::ODESolver(y0, t0, delta_t, precision, ode_system), constructed
\* in slot self.
ODESolver_construct(h, self, y0, t0, delta_t, ode_system) ==
    LET a == gsl_odeiv2_driver_alloc_y_new(h, self)
    IN  [ self |-> [ state |-> "live", y |-> y0, t |-> t0, t0 |-> t0, delta_t |-> delta_t,
                     step |-> 0, ode_system |-> ode_system, driver |-> a.driver ],
          heap |-> a.heap ]

\* A move constructor that copies the pointer to the driver.
ODESolver_move_copy(odeSolver) ==
    [ self |-> [ state |-> "live", y |-> odeSolver.y, t |-> odeSolver.t, t0 |-> odeSolver.t0,
                 delta_t |-> odeSolver.delta_t, step |-> odeSolver.step,
                 ode_system |-> odeSolver.ode_system, driver |-> odeSolver.driver ],
      other |-> odeSolver ]

\* ODESolver::ODESolver(ODESolver &&odeSolver): the new object and the one
\* moved from. The new object starts with an empty driver, which the swap
\* leaves in the object moved from.
ODESolver_move(odeSolver) ==
    [ self |-> [ state |-> "live", y |-> odeSolver.y, t |-> odeSolver.t, t0 |-> odeSolver.t0,
                 delta_t |-> odeSolver.delta_t, step |-> odeSolver.step,
                 ode_system |-> odeSolver.ode_system, driver |-> odeSolver.driver ],
      other |-> [odeSolver EXCEPT !.driver = NullDriver] ]

\* ODESolver::operator=(ODESolver &&other): the values are copied and the
\* drivers are swapped.
ODESolver_assign(self, other) ==
    [ self |-> [self EXCEPT !.y = other.y, !.t0 = other.t0, !.t = other.t,
                            !.delta_t = other.delta_t, !.step = other.step,
                            !.ode_system = other.ode_system, !.driver = other.driver],
      other |-> [other EXCEPT !.driver = self.driver] ]

\* ODESolver::~ODESolver(): a driver that is held is released and freed.
ODESolver_destroy(h, self) ==
    [ self |-> Destroyed,
      heap |-> IF self.driver # NullDriver THEN gsl_odeiv2_driver_free(h, self.driver)
               ELSE h ]

\* Objects are numbered in the order of their construction: s is the slot
\* of the next object.
NextSlot(s) ==
    /\ instances[s].state = "unborn"
    /\ \A x \in Slots : x < s => instances[x].state # "unborn"

InitOwnership ==
    /\ NoTree
    /\ NoPhys
    /\ solver = <<>>
    /\ result = <<>>
    /\ instances = [s \in Slots |-> Unborn]
    /\ heap = <<>>

\* An object is constructed on a system of its own or on the system of a
\* live object.
Construct ==
    \E s \in Slots :
        /\ NextSlot(s)
        /\ \E sys \in {s} \cup {instances[o].ode_system :
                                    o \in {x \in Slots : instances[x].state = "live"}} :
              LET r == ODESolver_construct(heap, s, <<0>>, 0, 1, sys)
              IN  /\ instances' = [instances EXCEPT ![s] = r.self]
                  /\ heap' = r.heap
        /\ UNCHANGED <<treeVars, odeVars, physVars>>

\* An object is move-constructed from a live one.
MoveConstruct ==
    \E s, o \in Slots :
        /\ NextSlot(s)
        /\ instances[o].state = "live"
        /\ LET r == ODESolver_move(instances[o])
           IN  instances' = [instances EXCEPT ![s] = r.self, ![o] = r.other]
        /\ UNCHANGED <<treeVars, odeVars, physVars, heap>>

\* A live object is move-assigned from a live one; moving an object into
\* itself swaps its driver with itself.
MoveAssign ==
    \E s, o \in Slots :
        /\ instances[s].state = "live"
        /\ instances[o].state = "live"
        /\ LET r == ODESolver_assign(instances[s], instances[o])
           IN  instances' = IF s = o THEN instances
                            ELSE [instances EXCEPT ![s] = r.self, ![o] = r.other]
        /\ UNCHANGED <<treeVars, odeVars, physVars, heap>>

\* A live object is destroyed.
Destroy ==
    \E s \in Slots :
        /\ instances[s].state = "live"
        /\ LET r == ODESolver_destroy(heap, instances[s])
           IN  /\ instances' = [instances EXCEPT ![s] = r.self]
               /\ heap' = r.heap
        /\ UNCHANGED <<treeVars, odeVars, physVars>>

NextOwnership == Construct \/ MoveConstruct \/ MoveAssign \/ Destroy

SpecOwnership == InitOwnership /\ [][NextOwnership]_vars

----------------------------------------------------------------------------
(* Vocabulary of the properties of the transfer protocol. The conditions of
   the code are written out here, so that a property does not read the
   operator it is about. *)

\* A transfer has run; run holds the tables it started from.
Ran == run.outcome # "none"

\* The subhalos the last transfer visited, in visiting order and as a set.
RunOrder == all_subhalos(run.snapshot)
RunSubhalos == Range(RunOrder)

\* Subhalo i as the last transfer found it.
Pre(i) == run.pre_subhalos[i]

\* The last transfer found subhalo i a satellite in its last identified snapshot.
SkippedBefore(i) ==
    Pre(i).subhalo_type = "SATELLITE" /\ Pre(i).last_snapshot_identified = Pre(i).snapshot

\* The last transfer found subhalo i with a descendant outside the next snapshot.
BadAdjacency(i) ==
    /\ Pre(i).descendant # NoSubhalo
    /\ Pre(Pre(i).descendant).snapshot # Pre(i).snapshot + 1

\* The principal galaxy of subhalo i as the last transfer found it.
PrincipalBefore(i) ==
    IF Pre(i).subhalo_type = "CENTRAL"
    THEN central_galaxy(Pre(i), run.pre_galaxies)
    ELSE type1_galaxy(Pre(i), run.pre_galaxies)

\* The masses and metal masses of the three gas reservoirs of a subhalo.
Gas(sub) == << sub.cold_halo_gas.mass, sub.cold_halo_gas.mass_metals,
               sub.hot_halo_gas.mass, sub.hot_halo_gas.mass_metals,
               sub.ejected_galaxy_gas.mass, sub.ejected_galaxy_gas.mass_metals >>
NoGas == <<0, 0, 0, 0, 0, 0>>
GasPlus(u, v) == [k \in 1..6 |-> u[k] + v[k]]

\* The subhalo that owns galaxy g in the table subs.
OwnerOf(subs, g) == CHOOSE i \in DOMAIN subs : g \in Range(subs[i].galaxies)

\* The number of places galaxy g takes in the galaxy lists of all subhalos.
Occurrences(subs, g) ==
    SeqSum([i \in 1..Len(subs) |->
               Cardinality({k \in 1..Len(subs[i].galaxies) : subs[i].galaxies[k] = g})])

----------------------------------------------------------------------------
(* C1 *)

\* C1: adjust_main_galaxy gives the principal galaxy of every transferred
\* subhalo (its CENTRAL galaxy if the subhalo is central, else its TYPE1
\* galaxy) the type of the table on (descendant is central, subhalo is main
\* progenitor): (yes,yes) CENTRAL, (yes,no) TYPE2, (no,yes) TYPE1, (no,no)
\* TYPE2, whatever type the galaxy had.
C1_TypeTable ==
    Ran => \A p \in run.transferred :
        LET desc_central == Pre(Pre(p).descendant).subhalo_type = "CENTRAL"
            main_prog    == Pre(p).main_progenitor
            principal    == PrincipalBefore(p)
        IN  principal # NoGalaxy =>
              /\ (desc_central /\ main_prog   => galaxies[principal].galaxy_type = "CENTRAL")
              /\ (desc_central /\ ~main_prog  => galaxies[principal].galaxy_type = "TYPE2")
              /\ (~desc_central /\ main_prog  => galaxies[principal].galaxy_type = "TYPE1")
              /\ (~desc_central /\ ~main_prog => galaxies[principal].galaxy_type = "TYPE2")

\* A transfer turned the TYPE1 galaxy of a satellite into a CENTRAL one and,
\* in the same call, the CENTRAL galaxy of another subhalo into a TYPE2 one.
C1_Witness ==
    /\ Ran
    /\ \E p, q \in run.transferred :
        /\ PrincipalBefore(p) # NoGalaxy
        /\ PrincipalBefore(q) # NoGalaxy
        /\ run.pre_galaxies[PrincipalBefore(p)].galaxy_type = "TYPE1"
        /\ galaxies[PrincipalBefore(p)].galaxy_type = "CENTRAL"
        /\ run.pre_galaxies[PrincipalBefore(q)].galaxy_type = "CENTRAL"
        /\ galaxies[PrincipalBefore(q)].galaxy_type = "TYPE2"

----------------------------------------------------------------------------
(* C2 *)

\* C2 as claimed: whenever any subhalo of the transferred snapshot has a
\* descendant whose snapshot is not the subhalo's plus one, the call ends in
\* the fatal invalid-argument error.
C2_Original ==
    Ran => ((\E i \in RunSubhalos : BadAdjacency(i)) => run.outcome = "invalid_argument")

\* C2 as amended: a subhalo that is not skipped as a satellite in its last
\* identified snapshot and whose descendant is not in the next snapshot is
\* never transferred and the call never returns normally: it raises the
\* invalid-argument error at the first such subhalo the loop reaches, unless
\* the call failed before reaching it. The error is raised for such subhalos
\* only; a skipped satellite raises nothing. (Subhalos are visited in the
\* order of their ids.)
C2_AdjacencyGuard ==
    Ran =>
      /\ \A i \in RunSubhalos :
            BadAdjacency(i) /\ ~SkippedBefore(i) =>
              /\ i \notin run.transferred
              /\ subhalos[i].galaxies = Pre(i).galaxies
              /\ \/ run.outcome = "assertion_failed"
                 \/ run.outcome = "invalid_argument" /\ run.failed_at <= i
                 \/ run.outcome = "invalid_data" /\ run.failed_at < i
      /\ run.outcome = "invalid_argument" =>
            /\ run.failed_at \in RunSubhalos
            /\ BadAdjacency(run.failed_at)
            /\ ~SkippedBefore(run.failed_at)
            /\ \A j \in RunSubhalos :
                  j < run.failed_at => ~(BadAdjacency(j) /\ ~SkippedBefore(j))

\* The call transferred the first subhalo and raised the error at the second.
C2_Witness ==
    /\ run.outcome = "invalid_argument"
    /\ run.transferred # {}
    /\ \E i \in run.transferred : i < run.failed_at
    /\ BadAdjacency(run.failed_at)

----------------------------------------------------------------------------
(* C3 *)

\* C3 as claimed: when exactly two subhalos of the transferred snapshot share
\* a descendant, the call adds the three gas reservoirs (mass and metals) of
\* both to the descendant's.
C3_Original ==
    run.outcome = "ok" =>
      \A a, b \in RunSubhalos :
        LET d == Pre(a).descendant
        IN  /\ a < b
            /\ d # NoSubhalo
            /\ {i \in RunSubhalos : Pre(i).descendant = d} = {a, b}
            => Gas(subhalos[d]) = GasPlus(Gas(Pre(d)), GasPlus(Gas(Pre(a)), Gas(Pre(b))))

\* C3 as amended: when exactly two subhalos share a descendant, a call that
\* returns normally has added to the descendant's three gas reservoirs the
\* reservoirs of each of the two that is not skipped as a satellite in its
\* last identified snapshot; a skipped one adds nothing.
C3_GasConserved ==
    run.outcome = "ok" =>
      \A a, b \in RunSubhalos :
        LET d == Pre(a).descendant
            given(p) == IF SkippedBefore(p) THEN NoGas ELSE Gas(Pre(p))
        IN  /\ a < b
            /\ d # NoSubhalo
            /\ {i \in RunSubhalos : Pre(i).descendant = d} = {a, b}
            => Gas(subhalos[d]) = GasPlus(Gas(Pre(d)), GasPlus(given(a), given(b)))

\* Two subhalos, none of them skipped, were merged into one descendant.
C3_Witness ==
    /\ run.outcome = "ok"
    /\ \E a, b \in run.transferred :
        /\ a < b
        /\ Pre(a).descendant = Pre(b).descendant
        /\ Gas(subhalos[Pre(a).descendant]) # Gas(Pre(Pre(a).descendant))

----------------------------------------------------------------------------
(* C4 *)

\* C4: in every state each galaxy takes exactly one place in the galaxy
\* lists of all subhalos, and a call of transfer_galaxies_to_next_snapshot
\* moves a galaxy at most once: a galaxy it moved is owned by the descendant
\* of the subhalo that owned it, a galaxy it did not move by the same subhalo.
C4_UniqueOwner ==
    /\ \A g \in GalaxyIds : Occurrences(subhalos, g) = 1
    /\ Ran => \A g \in GalaxyIds :
          LET before == OwnerOf(run.pre_subhalos, g)
              now    == OwnerOf(subhalos, g)
          IN  /\ run.moves[g] <= 1
              /\ run.moves[g] = 1 => /\ before \in run.transferred
                                     /\ now = Pre(before).descendant
                                     /\ now # before
              /\ run.moves[g] = 0 => now = before

\* The second transfer of a behaviour moved a galaxy that the first one had
\* moved, into a subhalo of the last snapshot.
C4_Witness ==
    /\ Ran
    /\ run.snapshot = 1
    /\ \E g \in GalaxyIds :
        /\ run.moves[g] = 1
        /\ HomeOf(g) # OwnerOf(run.pre_subhalos, g)
        /\ SnapOf(OwnerOf(subhalos, g)) = LastSnapshot

----------------------------------------------------------------------------
(* C5 *)

\* The total baryon mass, as the last transfer found it, of the subhalos i of
\* the sequence order that satisfy lost(i).
MassOf(order, lost(_)) ==
    SeqSum([k \in 1..Len(order) |->
               IF lost(order[k])
               THEN total_baryon_mass(Pre(order[k]), run.pre_galaxies) ELSE 0])

\* C5 as claimed: after a call that returned, the lost-baryons tally of the
\* transferred snapshot is the sum of total_baryon_mass over all its subhalos
\* without descendant.
C5_Original ==
    run.outcome = "ok" =>
      LET lost(i) == Pre(i).descendant = NoSubhalo
      IN  AllBaryons.baryon_total_lost[run.snapshot].value = MassOf(RunOrder, lost)

\* C5 as amended: the subhalos without descendant that are not skipped as
\* satellites in their last identified snapshot contribute their total baryon
\* mass: after a call that returned, the tally of the transferred snapshot is
\* the sum over these subhalos when there is any; otherwise, and when the call
\* failed, the tally is left as it was. The tallies of the other snapshots
\* are left as they were.
C5_LostBaryons ==
    Ran =>
      LET lost(i) == Pre(i).descendant = NoSubhalo /\ ~SkippedBefore(i)
          tally   == AllBaryons.baryon_total_lost
          before  == run.pre_ledger.baryon_total_lost
      IN  /\ IF run.outcome = "ok" /\ (\E i \in RunSubhalos : lost(i))
             THEN tally[run.snapshot] = [present |-> TRUE, value |-> MassOf(RunOrder, lost)]
             ELSE tally[run.snapshot] = before[run.snapshot]
          /\ \A s \in DOMAIN tally : s # run.snapshot => tally[s] = before[s]

\* A call met a subhalo without descendant that it skipped and another one
\* that it did not skip, and wrote the tally.
C5_Witness ==
    /\ run.outcome = "ok"
    /\ \E i, j \in RunSubhalos :
        /\ Pre(i).descendant = NoSubhalo /\ SkippedBefore(i)
        /\ Pre(j).descendant = NoSubhalo /\ ~SkippedBefore(j)
    /\ AllBaryons.baryon_total_lost[run.snapshot].present

----------------------------------------------------------------------------
(* C6 *)

Last(s) == s[Len(s)]

\* The event counts and star formation rate totals of the last ledger entry.
LastEntry ==
    [ SFR_disk      |-> Last(AllBaryons.SFR_disk),
      SFR_bulge     |-> Last(AllBaryons.SFR_bulge),
      major_mergers |-> Last(AllBaryons.major_mergers),
      minor_mergers |-> Last(AllBaryons.minor_mergers),
      disk_instabil |-> Last(AllBaryons.disk_instabil) ]

\* C6 as claimed: the accounting pass run after the transfer of a snapshot
\* appends an entry whose event counts and star formation rate totals are
\* those the galaxies of the snapshot accumulated.
C6_Original ==
    phase.tracked /\ phase.tracked_after >= 1 => LastEntry = phase.accumulated

\* C6 as amended: the accounting pass appends one entry per snapshot to every
\* series of the ledger; run before the transfer of the snapshot, the entry's
\* event counts and star formation rate totals are those the galaxies of the
\* snapshot accumulated; run after the transfer, they are all zero, since the
\* transfer has set the rates and counters of these galaxies to zero.
C6_LedgerEntry ==
    phase.tracked =>
      /\ \A series \in DOMAIN AllBaryons \ {"baryon_total_lost"} :
            Len(AllBaryons[series]) = snapshot + 1
      /\ phase.tracked_after = 0 => LastEntry = phase.accumulated
      /\ phase.tracked_after >= 1 => LastEntry = NoAccumulation

\* In the second snapshot the accounting pass ran before the transfer, on
\* galaxies that had formed stars and had mergers and disk instabilities.
C6_Witness ==
    /\ phase.tracked
    /\ phase.tracked_after = 0
    /\ snapshot = 1
    /\ LastEntry.SFR_disk > 0
    /\ LastEntry.minor_mergers > 0
    /\ LastEntry.disk_instabil > 0

----------------------------------------------------------------------------
(* C7 *)

\* The gas the subhalos of order that the last transfer transferred to the
\* subhalo d held.
RECURSIVE GasGiven(_, _)
GasGiven(order, d) ==
    IF order = <<>> THEN NoGas
    ELSE GasPlus(IF Head(order) \in run.transferred /\ Pre(Head(order)).descendant = d
                 THEN Gas(Pre(Head(order))) ELSE NoGas,
                 GasGiven(Tail(order), d))

\* C7: a satellite subhalo whose last identified snapshot is its snapshot is
\* skipped: it is not transferred, it keeps its galaxies, these keep their
\* type, and its descendant's reservoirs and cooling tracking grow by what
\* the other, transferred subhalos hold only.
C7_SatelliteSkipped ==
    Ran => \A i \in RunSubhalos :
        SkippedBefore(i) =>
          /\ i \notin run.transferred
          /\ subhalos[i].galaxies = Pre(i).galaxies
          /\ \A g \in Range(Pre(i).galaxies) :
                galaxies[g].galaxy_type = run.pre_galaxies[g].galaxy_type
          /\ LET d == Pre(i).descendant
             IN  d # NoSubhalo =>
                   /\ Gas(subhalos[d]) = GasPlus(Gas(Pre(d)), GasGiven(RunOrder, d))
                   /\ subhalos[d].cooling_subhalo_tracking # Pre(d).cooling_subhalo_tracking
                         => subhalos[d].cooling_subhalo_tracking
                                # Pre(i).cooling_subhalo_tracking

\* A call skipped a satellite that owns galaxies and has a descendant in the
\* next snapshot, and transferred another subhalo to the same descendant.
C7_Witness ==
    /\ run.outcome = "ok"
    /\ \E i \in RunSubhalos, p \in run.transferred :
        /\ SkippedBefore(i)
        /\ Pre(i).galaxies # <<>>
        /\ Pre(i).descendant = Pre(p).descendant
        /\ ~BadAdjacency(i)

----------------------------------------------------------------------------
(* C8 *)

\* C8 as claimed: whenever a call of evolve() returns a state vector, the
\* solver's time is t0 + step*delta_t, step being the number of calls made.
C8_Original ==
    result.kind = "returned" => solver.t = solver.t0 + solver.step * solver.delta_t

----------------------------------------------------------------------------
(* C9 *)

\* C9: when the backend reports GSL_FAILURE, GSL_ENOPROG or GSL_EMAXITER,
\* evolve() returns the solver's current state vector and raises no error.
C9_SoftStatusReturns ==
    result.status \in SoftStatuses =>
      /\ result.kind = "returned"
      /\ result.y = solver.y
      /\ result.what = <<>>

\* The step ceiling was reported before the target time, and evolve() returned.
C9_Witness ==
    /\ result.status = "GSL_EMAXITER"
    /\ result.kind = "returned"
    /\ solver.t < solver.t0 + solver.step * solver.delta_t

----------------------------------------------------------------------------
(* C10 *)

\* C10: when the backend reports GSL_EBADFUNC, evolve() resets the driver and
\* raises a math_error; on every other status that is neither success nor one
\* of the three soft ones it raises a math_error that carries gsl_strerror's
\* text; in both cases it returns no state vector.
C10_HardStatusThrows ==
    /\ result.status = "GSL_EBADFUNC" =>
          /\ result.kind = "math_error"
          /\ result.y = <<>>
          /\ solver.driver.fresh
          /\ result.what = << "Error while solving ODE system: ",
                              "user function signaled an error" >>
    /\ result.status \in Statuses \ ({"GSL_SUCCESS", "GSL_EBADFUNC"} \cup SoftStatuses) =>
          /\ result.kind = "math_error"
          /\ result.y = <<>>
          /\ result.what = << "Error while solving ODE system: ",
                              "unexpected GSL error: ", gsl_strerror(result.status) >>

\* The evaluator failed in the second call, on a driver that had taken steps.
C10_Witness ==
    /\ result.status = "GSL_EBADFUNC"
    /\ result.kind = "math_error"
    /\ solver.step = 2
    /\ solver.driver.n > 0
    /\ solver.driver.fresh

----------------------------------------------------------------------------
(* Exact fractions: the stellar feedback multiplies and divides its inputs. *)
(* A fraction is a record [n, d] in lowest terms with d > 0.                *)

RECURSIVE GCD(_, _)
GCD(a, b) == IF b = 0 THEN a ELSE GCD(b, a % b)

Abs(k) == IF k < 0 THEN -k ELSE k

Frac(n, d) ==
    LET g == GCD(Abs(n), d)
    IN  [n |-> n \div g, d |-> d \div g]

Whole(k) == [n |-> k, d |-> 1]

FMul(a, b) ==
    LET g1 == GCD(Abs(a.n), b.d)
        g2 == GCD(Abs(b.n), a.d)
    IN  IF a.n = 0 \/ b.n = 0 THEN Whole(0)
        ELSE [n |-> (a.n \div g1) * (b.n \div g2), d |-> (a.d \div g2) * (b.d \div g1)]

FDiv(a, b) ==
    FMul(a, IF b.n > 0 THEN [n |-> b.d, d |-> b.n] ELSE [n |-> -b.d, d |-> -b.n])

FAdd(a, b) ==
    LET l == a.d * (b.d \div GCD(a.d, b.d))
    IN  Frac(a.n * (l \div a.d) + b.n * (l \div b.d), l)

FSub(a, b) == FAdd(a, [n |-> -b.n, d |-> b.d])

FLess(a, b) == FSub(a, b).n < 0

\* std::pow with a whole exponent.
RECURSIVE pow(_, _)
pow(x, k) == IF k = 0 THEN Whole(1) ELSE FMul(x, pow(x, k - 1))

----------------------------------------------------------------------------
(* The stellar feedback: StellarFeedback::outflow_rate *)

MaxV   == 2     \* the largest velocity (of the subhalo, of the galaxy, v_sn)
MaxSfr == 1     \* the largest star formation rate

Models == {"FIRE", "GALFORM", "LGALAXIES", "LAGOS13", "LAGOS13Trunc", "GALFORMFIRE"}

\* constants::EPS3, the small number added to b1.
EPS3 == Frac(1, 1000)

\* std::pow(v, 1.1) at the velocities of the model, kept to two decimals.
pow_1_1(v) ==
    CASE v = 1 -> Whole(1)
      [] v = 2 -> Frac(214, 100)
      [] v = 3 -> Frac(335, 100)
      [] OTHER -> Frac(459, 100)

\* The host velocity: of the galaxy under galaxy_scaling, else of the subhalo.
host_velocity(parameters, vsubh, vgal) ==
    IF parameters.galaxy_scaling THEN vgal ELSE vsubh

\* const_sn of the selected model, for a velocity v > 0.
const_sn(parameters, v, z) ==
    LET ratio == Frac(parameters.v_sn, v)
        trunc_index == IF v > parameters.v_sn THEN 1 ELSE parameters.beta_disk
        vhot == FMul(Whole(parameters.v_sn), pow(Whole(1 + z), parameters.redshift_power))
    IN  CASE parameters.model = "FIRE" ->
                FMul(pow(Whole(1 + z), parameters.redshift_power), pow(ratio, trunc_index))
          [] parameters.model = "LAGOS13" ->
                pow(FDiv(vhot, Whole(v)), parameters.beta_disk)
          [] parameters.model = "LAGOS13Trunc" ->
                pow(FDiv(vhot, Whole(v)), trunc_index)
          [] parameters.model = "GALFORM" ->
                pow(ratio, parameters.beta_disk)
          [] parameters.model = "LGALAXIES" ->
                FAdd(Frac(1, 2), pow(ratio, parameters.beta_disk))
          [] parameters.model = "GALFORMFIRE" ->
                FMul(pow(Whole(1 + z), parameters.redshift_power),
                     pow(ratio, parameters.beta_disk))
          [] OTHER -> Whole(0)

\* eps_halo / energ_halo: the loading the energy of the supernovae affords.
energetic_loading(parameters, v, z) ==
    LET vsn == FMul(Frac(19, 10), pow_1_1(v))
        eps_halo == FMul(FMul(FMul(parameters.eps_halo, const_sn(parameters, v, z)),
                              Frac(1, 2)), pow(vsn, 2))
        energ_halo == FMul(Frac(1, 2), pow(Whole(v), 2))
    IN  FDiv(eps_halo, energ_halo)

\* mejected: the ejected mass the energy implies.
implied_mejected(parameters, sfr, v, z) ==
    LET b1 == FMul(parameters.eps_disk, const_sn(parameters, v, z))
        mreheat == FMul(b1, Whole(sfr))
    IN  FSub(FMul(energetic_loading(parameters, v, z), Whole(sfr)), mreheat)

\* outflow_rate in which the degenerate test lets a zero SFR through.
outflow_rate_zero_sfr(parameters, sfr, vsubh, vgal, z) ==
    LET v == host_velocity(parameters, vsubh, vgal)
    IN  IF sfr < 0 \/ v <= 0 THEN [b1 |-> Whole(0), b2 |-> Whole(0)]
        ELSE LET b1 == FMul(parameters.eps_disk, const_sn(parameters, v, z))
                 mejected == implied_mejected(parameters, sfr, v, z)
                 b2 == FDiv(mejected, Whole(sfr))
             IN  IF mejected.n > 0
                 THEN IF FLess(b1, b2) THEN [b1 |-> FAdd(b1, EPS3), b2 |-> b1]
                      ELSE [b1 |-> b1, b2 |-> b2]
                 ELSE [b1 |-> energetic_loading(parameters, v, z), b2 |-> Whole(0)]

\* outflow_rate in which the reheating loading is not replaced when nothing
\* is ejected.
outflow_rate_no_fold(parameters, sfr, vsubh, vgal, z) ==
    LET v == host_velocity(parameters, vsubh, vgal)
    IN  IF sfr <= 0 \/ v <= 0 THEN [b1 |-> Whole(0), b2 |-> Whole(0)]
        ELSE LET b1 == FMul(parameters.eps_disk, const_sn(parameters, v, z))
                 mejected == implied_mejected(parameters, sfr, v, z)
                 b2 == FDiv(mejected, Whole(sfr))
             IN  IF mejected.n > 0
                 THEN IF FLess(b1, b2) THEN [b1 |-> FAdd(b1, EPS3), b2 |-> b1]
                      ELSE [b1 |-> b1, b2 |-> b2]
                 ELSE [b1 |-> b1, b2 |-> Whole(0)]

\* void StellarFeedback::outflow_rate(sfr, vsubh, vgal, z, b1, b2): the two
\* loadings it leaves in b1 and b2.
outflow_rate(parameters, sfr, vsubh, vgal, z) ==
    LET v == host_velocity(parameters, vsubh, vgal)
    IN  IF sfr <= 0 \/ v <= 0 THEN [b1 |-> Whole(0), b2 |-> Whole(0)]
        ELSE LET b1 == FMul(parameters.eps_disk, const_sn(parameters, v, z))
                 mejected == implied_mejected(parameters, sfr, v, z)
                 b2 == FDiv(mejected, Whole(sfr))
             IN  IF mejected.n > 0
                 THEN IF FLess(b1, b2) THEN [b1 |-> FAdd(b1, EPS3), b2 |-> b1]
                      ELSE [b1 |-> b1, b2 |-> b2]
                 ELSE [b1 |-> energetic_loading(parameters, v, z), b2 |-> Whole(0)]

\* The parameter settings of the model: every family, both scalings, and
\* efficiencies on both sides of the energy balance.
StellarFeedbackParameters ==
    [ model : Models, galaxy_scaling : BOOLEAN, beta_disk : 1..2, v_sn : 1..MaxV,
      redshift_power : 0..1,
      eps_disk : {Whole(1), Frac(361, 100), Whole(4)}, eps_halo : {Whole(1), Whole(2)} ]

NoLoading == [b1 |-> Whole(0), b2 |-> Whole(0)]

InitFeedback ==
    /\ NoTree
    /\ NoInstances
    /\ solver = <<>>
    /\ result = <<>>
    /\ evaluation = <<>>
    /\ subhalo = <<>>
    /\ galaxy = <<>>
    /\ call = <<>>
    /\ feedback \in [ parameters : StellarFeedbackParameters, sfr : -1..MaxSfr,
                      vsubh : 0..MaxV, vgal : 0..MaxV, z : 0..1,
                      called : {FALSE}, loading : {NoLoading} ]

\* One call of outflow_rate on the inputs of the state.
OutflowRate ==
    /\ ~feedback.called
    /\ feedback' = [feedback EXCEPT
                      !.called = TRUE,
                      !.loading = outflow_rate(feedback.parameters, feedback.sfr,
                                               feedback.vsubh, feedback.vgal, feedback.z)]
    /\ UNCHANGED <<treeVars, odeVars, ownVars, evaluation, subhalo, galaxy, call>>

NextFeedback == OutflowRate

SpecFeedback == InitFeedback /\ [][NextFeedback]_vars

----------------------------------------------------------------------------
(* The equations of the Basic model: basic_physicalmodel_evaluator *)

NC == 17                 \* the dimension of BasicPhysicalModel
Components == 0..(NC - 1)

\* What the collaborators give one evaluation: the star formation service
\* its rate and (through jrate) the angular momentum it moves to the stars,
\* the stellar feedback its loadings.
Services ==
    [ SFR : 0..MaxSfr + 1, jrate : 0..1, beta1 : {Whole(0), Whole(1), Frac(361, 100)},
      beta2 : {Whole(0), Whole(1)}, betaj_1 : {Whole(1)}, betaj_2 : {Whole(0), Whole(1)} ]

\* The evaluator in which the hot gas receives all the reheated gas, the
\* ejected part included.
basic_physicalmodel_evaluator_no_escape(y, params, model, service) ==
    LET R == model.recycle
        yield == model.yield
        mcoolrate == Whole(params.mcoolrate)
        zcold == IF y[1] > 0 /\ y[6] > 0 THEN Frac(y[6], y[1]) ELSE model.pre_enrich_z
        zhot  == IF y[2] > 0 /\ y[7] > 0 THEN Frac(y[7], y[2]) ELSE model.pre_enrich_z
        SFR == Whole(service.SFR)
        jrate == Whole(service.jrate)
        beta1 == service.beta1
        beta2 == service.beta2
        betaj_1 == service.betaj_1
        betaj_2 == service.betaj_2
        rsub == FSub(Whole(1), R)
        jcold_halo == params.jcold_halo
    IN  [ i \in Components |->
            CASE i = 0  -> FMul(SFR, rsub)
              [] i = 1  -> FSub(mcoolrate, FMul(FAdd(rsub, beta1), SFR))
              [] i = 2  -> FSub(Whole(0), mcoolrate)
              [] i = 3  -> FMul(beta1, SFR)
              [] i = 4  -> FMul(beta2, SFR)
              [] i = 5  -> FMul(FMul(rsub, zcold), SFR)
              [] i = 6  -> FAdd(FMul(mcoolrate, zhot),
                                FMul(SFR, FSub(yield, FMul(FAdd(rsub, beta1), zcold))))
              [] i = 7  -> FSub(Whole(0), FMul(mcoolrate, zhot))
              [] i = 8  -> FMul(FMul(FSub(beta1, beta2), zcold), SFR)
              [] i = 9  -> FMul(FMul(beta2, zcold), SFR)
              [] i = 10 -> SFR
              [] i = 11 -> FMul(zcold, SFR)
              [] i = 12 -> FMul(rsub, jrate)
              [] i = 13 -> FSub(FMul(mcoolrate, jcold_halo), FMul(FAdd(rsub, betaj_1), jrate))
              [] i = 14 -> FSub(Whole(0), FMul(mcoolrate, jcold_halo))
              [] i = 15 -> FMul(FSub(betaj_1, betaj_2), jrate)
              [] OTHER  -> FMul(betaj_2, jrate) ]

\* int basic_physicalmodel_evaluator(t, y, f, data): the derivatives f it
\* writes for the state vector y. The current angular momentum jgas is only
\* handed to the star formation service, whose answers are in service.
basic_physicalmodel_evaluator(y, params, model, service) ==
    LET R == model.recycle
        yield == model.yield
        mcoolrate == Whole(params.mcoolrate)
        zcold == IF y[1] > 0 /\ y[6] > 0 THEN Frac(y[6], y[1]) ELSE model.pre_enrich_z
        zhot  == IF y[2] > 0 /\ y[7] > 0 THEN Frac(y[7], y[2]) ELSE model.pre_enrich_z
        SFR == Whole(service.SFR)
        jrate == Whole(service.jrate)
        beta1 == service.beta1
        beta2 == service.beta2
        betaj_1 == service.betaj_1
        betaj_2 == service.betaj_2
        rsub == FSub(Whole(1), R)
        jcold_halo == params.jcold_halo
    IN  [ i \in Components |->
            CASE i = 0  -> FMul(SFR, rsub)
              [] i = 1  -> FSub(mcoolrate, FMul(FAdd(rsub, beta1), SFR))
              [] i = 2  -> FSub(Whole(0), mcoolrate)
              [] i = 3  -> FMul(FSub(beta1, beta2), SFR)
              [] i = 4  -> FMul(beta2, SFR)
              [] i = 5  -> FMul(FMul(rsub, zcold), SFR)
              [] i = 6  -> FAdd(FMul(mcoolrate, zhot),
                                FMul(SFR, FSub(yield, FMul(FAdd(rsub, beta1), zcold))))
              [] i = 7  -> FSub(Whole(0), FMul(mcoolrate, zhot))
              [] i = 8  -> FMul(FMul(FSub(beta1, beta2), zcold), SFR)
              [] i = 9  -> FMul(FMul(beta2, zcold), SFR)
              [] i = 10 -> SFR
              [] i = 11 -> FMul(zcold, SFR)
              [] i = 12 -> FMul(rsub, jrate)
              [] i = 13 -> FSub(FMul(mcoolrate, jcold_halo), FMul(FAdd(rsub, betaj_1), jrate))
              [] i = 14 -> FSub(Whole(0), FMul(mcoolrate, jcold_halo))
              [] i = 15 -> FMul(FSub(betaj_1, betaj_2), jrate)
              [] OTHER  -> FMul(betaj_2, jrate) ]

\* An evaluator that reports a failure when the star formation service
\* answers that no stars form.
basic_physicalmodel_evaluator_status_no_stars(y, params, model, service) ==
    IF service.SFR = 0 THEN 1 ELSE 0

\* The status basic_physicalmodel_evaluator returns to the backend once it
\* has written the derivatives ("return 0").
basic_physicalmodel_evaluator_status(y, params, model, service) == 0

\* RecyclingParameters and GasCoolingParameters, as far as the evaluator
\* reads them.
ModelParameters ==
    [ recycle : {Whole(0), Frac(46, 100)}, yield : {Frac(3, 100)},
      pre_enrich_z : {Frac(1, 10000000)} ]

\* State vectors of the evaluator: the gas of the disk and of the halo with
\* and without mass and metals.
EvaluatorVectors ==
    { [ i \in Components |->
          CASE i = 1 -> gas [] i = 6 -> gasz [] i = 2 -> halo [] i = 7 -> haloz
            [] i = 13 -> gas [] OTHER -> 1 ] :
      gas \in {0, 4}, gasz \in 0..1, halo \in {0, 4}, haloz \in 0..1 }

\* The parameter bundles of the evaluator: of a disk with and without
\* cooling, and of a starburst.
EvaluatorParams ==
    [ rgas : {Whole(1)}, rstar : {Whole(1)}, mcoolrate : 0..2,
      jcold_halo : {Whole(0), Whole(1)}, delta_t : {1}, redshift : {0}, vsubh : {1},
      vgal : {Whole(1)}, burst : BOOLEAN ]

NoDerivatives == [i \in Components |-> Whole(0)]

InitEvaluator ==
    /\ NoTree
    /\ NoInstances
    /\ solver = <<>>
    /\ result = <<>>
    /\ feedback = <<>>
    /\ subhalo = <<>>
    /\ galaxy = <<>>
    /\ call = <<>>
    /\ evaluation \in [ y : EvaluatorVectors, params : EvaluatorParams,
                        model : ModelParameters, called : {FALSE},
                        service : {[SFR |-> 0, jrate |-> 0, beta1 |-> Whole(0),
                                    beta2 |-> Whole(0), betaj_1 |-> Whole(0),
                                    betaj_2 |-> Whole(0)]},
                        f : {NoDerivatives} ]

\* One evaluation of the derivatives, with what the collaborators answer.
Evaluate ==
    /\ ~evaluation.called
    /\ \E service \in Services :
          evaluation' = [evaluation EXCEPT
                           !.called = TRUE,
                           !.service = service,
                           !.f = basic_physicalmodel_evaluator(evaluation.y, evaluation.params,
                                                               evaluation.model, service)]
    /\ UNCHANGED <<treeVars, odeVars, ownVars, feedback, subhalo, galaxy, call>>

NextEvaluator == Evaluate

SpecEvaluator == InitEvaluator /\ [][NextEvaluator]_vars

----------------------------------------------------------------------------
(* The physical model: PhysicalModel<NC> and BasicPhysicalModel *)

MaxMass == 3             \* the largest mass of a reservoir

\* constants::tolerance, in the mass unit of the model (half a tolerance);
\* lengths are in the unit that gives the tolerance the same number.
tolerance == 2

\* constants::EAGLEJconv, in the angular momentum unit that makes it one.
EAGLEJconv == Whole(1)

GalaxyTypes == {"CENTRAL", "TYPE1", "TYPE2"}

\* As doubles divide, x/0 is an infinity ([n |-> 1, d |-> 0]), and 0/0 is not
\* a number ([n |-> 0, d |-> 0]).
isnan(x) == x.d = 0 /\ x.n = 0

\* x*k for a finite k # 0, and x*k/m: infinities and NaNs stay what they are.
Times(x, k) == IF x.d = 0 THEN x ELSE FMul(x, k)
Over(x, m) ==
    IF x.d = 0 THEN x
    ELSE IF m = 0 THEN [n |-> IF x.n = 0 THEN 0 ELSE 1, d |-> 0]
    ELSE FDiv(x, Whole(m))

\* A BaryonBase with its specific angular momentum and scale radius.
Component(m, z, j, r) == [mass |-> m, mass_metals |-> z, sAM |-> j, rscale |-> r]

\* BaryonBase::restore_baryon: the canonical empty state.
restore_baryon == Component(0, 0, Whole(0), Whole(0))

\* The subhalo of the call: a halo with gas in its three reservoirs.
PhysSubhalo ==
    [ cold_halo_gas |-> Component(MaxMass + 1, 1, Whole(1), Whole(0)),
      hot_halo_gas |-> Component(MaxMass + 3, 2, Whole(1), Whole(0)),
      ejected_galaxy_gas |-> Component(MaxMass, 1, Whole(0), Whole(0)),
      Vvir |-> 1 ]

\* A galaxy of the given type whose disk and bulge hold m in stars; a galaxy
\* without stars has no gas disk yet.
PhysGalaxy(type, m) ==
    [ galaxy_type |-> type, vmax |-> 1,
      disk_stars |-> Component(m, 0, Whole(IF m = 0 THEN 0 ELSE 4), Whole(IF m = 0 THEN 0 ELSE 4)),
      disk_gas   |-> Component(IF m = 0 THEN 0 ELSE MaxMass, 0, Whole(IF m = 0 THEN 0 ELSE 4),
                               Whole(IF m = 0 THEN 0 ELSE 4)),
      bulge_stars |-> Component(m, 0, Whole(0), Whole(1)),
      bulge_gas   |-> Component(MaxMass, 1, Whole(1), Whole(1)),
      galaxymergers_burst_stars |-> [mass |-> 0, mass_metals |-> 0],
      diskinstabilities_burst_stars |-> [mass |-> 0, mass_metals |-> 0],
      sfr_disk |-> 0, sfr_z_disk |-> 0, sfr_bulge_mergers |-> 0, sfr_z_bulge_mergers |-> 0,
      sfr_bulge_diskins |-> 0, sfr_z_bulge_diskins |-> 0 ]

\* The state vectors hold the masses (0..11) as numbers and the angular
\* momenta (12..16) as fractions.

\* std::vector<double> BasicPhysicalModel::from_galaxy(subhalo, galaxy)
from_galaxy(sub, gal) ==
    [ i \in Components |->
        CASE i = 0  -> gal.disk_stars.mass
          [] i = 1  -> gal.disk_gas.mass
          [] i = 2  -> sub.cold_halo_gas.mass
          [] i = 3  -> sub.hot_halo_gas.mass
          [] i = 4  -> sub.ejected_galaxy_gas.mass
          [] i = 5  -> gal.disk_stars.mass_metals
          [] i = 6  -> gal.disk_gas.mass_metals
          [] i = 7  -> sub.cold_halo_gas.mass_metals
          [] i = 8  -> sub.hot_halo_gas.mass_metals
          [] i = 9  -> sub.ejected_galaxy_gas.mass_metals
          [] i = 10 -> 0
          [] i = 11 -> 0
          [] i = 12 -> Times(gal.disk_stars.sAM, Whole(gal.disk_stars.mass))
          [] i = 13 -> Times(gal.disk_gas.sAM, Whole(gal.disk_gas.mass))
          [] i = 14 -> Times(sub.cold_halo_gas.sAM, Whole(sub.cold_halo_gas.mass))
          [] i = 15 -> Times(sub.hot_halo_gas.sAM, Whole(sub.hot_halo_gas.mass))
          [] OTHER  -> Times(sub.ejected_galaxy_gas.sAM, Whole(sub.ejected_galaxy_gas.mass)) ]

\* std::vector<double> BasicPhysicalModel::from_galaxy_starburst(subhalo, galaxy)
from_galaxy_starburst(sub, gal) ==
    [ i \in Components |->
        CASE i = 0  -> gal.bulge_stars.mass
          [] i = 1  -> gal.bulge_gas.mass
          [] i = 2  -> 0
          [] i = 3  -> sub.hot_halo_gas.mass
          [] i = 4  -> sub.ejected_galaxy_gas.mass
          [] i = 5  -> gal.bulge_stars.mass_metals
          [] i = 6  -> gal.bulge_gas.mass_metals
          [] i = 7  -> 0
          [] i = 8  -> sub.hot_halo_gas.mass_metals
          [] i = 9  -> sub.ejected_galaxy_gas.mass_metals
          [] i = 10 -> 0
          [] i = 11 -> 0
          [] OTHER  -> Whole(0) ]

\* "if(c.mass_metals < tolerance) c.mass_metals = 0"
snap_metals(c) == IF c.mass_metals < tolerance THEN [c EXCEPT !.mass_metals = 0] ELSE c

\* The reset of a reservoir that a plausible slip limits to negative masses.
snap_mass_negative(c) == IF c.mass < 0 THEN restore_baryon ELSE c

\* "if(c.mass < tolerance) c.restore_baryon()"
snap_mass(c) == IF c.mass < tolerance THEN restore_baryon ELSE c

\* The final test of to_galaxy and to_galaxy_starburst on the gas of the
\* galaxy, the hot gas and the ejected gas.
more_metals_than_gas(gas, sub) ==
    \/ gas.mass < gas.mass_metals
    \/ sub.hot_halo_gas.mass < sub.hot_halo_gas.mass_metals
    \/ sub.ejected_galaxy_gas.mass < sub.ejected_galaxy_gas.mass_metals

Thrown(text, sub, gal) ==
    [what |-> "invalid_argument", text |-> text, subhalo |-> sub, galaxy |-> gal]

Returned(sub, gal) == [what |-> "returned", text |-> "", subhalo |-> sub, galaxy |-> gal]

\* to_galaxy without the reset of the reservoirs below the tolerance.
to_galaxy_no_reset(y, sub, gal, delta_t) ==
    IF y[0] < gal.disk_stars.mass
    THEN Thrown("Galaxy decreased its stellar mass after disk star formation process.",
                sub, gal)
    ELSE LET g1 == [gal EXCEPT !.disk_stars.mass = y[0], !.disk_gas.mass = y[1],
                          !.disk_stars.mass_metals = y[5], !.disk_gas.mass_metals = y[6],
                          !.sfr_disk = @ + (y[10] \div delta_t),
                          !.sfr_z_disk = @ + (y[11] \div delta_t)]
        s1 == [sub EXCEPT !.cold_halo_gas.mass = y[2], !.hot_halo_gas.mass = y[3],
                          !.ejected_galaxy_gas.mass = y[4],
                          !.cold_halo_gas.mass_metals = y[7],
                          !.hot_halo_gas.mass_metals = y[8],
                          !.ejected_galaxy_gas.mass_metals = y[9]]
        moments == y[12].n > 0 /\ y[13].n > 0
        stars_sAM == Over(y[12], g1.disk_stars.mass)
        gas_sAM == Over(y[13], g1.disk_gas.mass)
        g2 == IF moments
              THEN [g1 EXCEPT !.disk_stars.sAM = stars_sAM, !.disk_gas.sAM = gas_sAM,
                              !.disk_stars.rscale = Times(Over(stars_sAM, gal.vmax), EAGLEJconv),
                              !.disk_gas.rscale = Times(Over(gas_sAM, gal.vmax), EAGLEJconv)]
              ELSE g1
        s2 == IF moments
              THEN [s1 EXCEPT !.cold_halo_gas.sAM = Over(y[14], s1.cold_halo_gas.mass),
                              !.hot_halo_gas.sAM = Over(y[15], s1.hot_halo_gas.mass),
                              !.ejected_galaxy_gas.sAM = Over(y[16], s1.ejected_galaxy_gas.mass)]
              ELSE s1
        g3 == [g2 EXCEPT !.disk_stars = snap_metals(@), !.disk_gas = snap_metals(@)]
        s3 == [s2 EXCEPT !.cold_halo_gas = snap_metals(@),
                         !.hot_halo_gas = snap_metals(@),
                         !.ejected_galaxy_gas = snap_metals(@)]
    IN  IF moments /\ g2.disk_stars.rscale.d # 0
             /\ ~FLess(Whole(tolerance), g2.disk_stars.rscale) /\ g2.disk_stars.mass > 0
        THEN Thrown("Galaxy with extremely small size, rdisk_stars < 1e-10, in physical model",
                    s2, g2)
        ELSE IF moments /\ (isnan(g2.disk_gas.sAM) \/ isnan(g2.disk_gas.rscale))
        THEN Thrown("rgas or sAM are NaN, cannot continue at physical model", s2, g2)
        ELSE IF more_metals_than_gas(g3.disk_gas, s3)
        THEN Thrown("Galaxy has more gas mass in metals that total gas mass.", s3, g3)
        ELSE Returned(s3, g3)

\* to_galaxy without its test of the stellar mass.
to_galaxy_unchecked(y, sub, gal, delta_t) ==
    LET g1 == [gal EXCEPT !.disk_stars.mass = y[0], !.disk_gas.mass = y[1],
                          !.disk_stars.mass_metals = y[5], !.disk_gas.mass_metals = y[6],
                          !.sfr_disk = @ + (y[10] \div delta_t),
                          !.sfr_z_disk = @ + (y[11] \div delta_t)]
        s1 == [sub EXCEPT !.cold_halo_gas.mass = y[2], !.hot_halo_gas.mass = y[3],
                          !.ejected_galaxy_gas.mass = y[4],
                          !.cold_halo_gas.mass_metals = y[7],
                          !.hot_halo_gas.mass_metals = y[8],
                          !.ejected_galaxy_gas.mass_metals = y[9]]
        moments == y[12].n > 0 /\ y[13].n > 0
        stars_sAM == Over(y[12], g1.disk_stars.mass)
        gas_sAM == Over(y[13], g1.disk_gas.mass)
        g2 == IF moments
              THEN [g1 EXCEPT !.disk_stars.sAM = stars_sAM, !.disk_gas.sAM = gas_sAM,
                              !.disk_stars.rscale = Times(Over(stars_sAM, gal.vmax), EAGLEJconv),
                              !.disk_gas.rscale = Times(Over(gas_sAM, gal.vmax), EAGLEJconv)]
              ELSE g1
        s2 == IF moments
              THEN [s1 EXCEPT !.cold_halo_gas.sAM = Over(y[14], s1.cold_halo_gas.mass),
                              !.hot_halo_gas.sAM = Over(y[15], s1.hot_halo_gas.mass),
                              !.ejected_galaxy_gas.sAM = Over(y[16], s1.ejected_galaxy_gas.mass)]
              ELSE s1
        g3 == [g2 EXCEPT !.disk_stars = snap_mass(snap_metals(@)),
                         !.disk_gas = snap_mass(snap_metals(@))]
        s3 == [s2 EXCEPT !.cold_halo_gas = snap_mass(snap_metals(@)),
                         !.hot_halo_gas = snap_mass(snap_metals(@)),
                         !.ejected_galaxy_gas = snap_mass(snap_metals(@))]
    IN  IF moments /\ g2.disk_stars.rscale.d # 0
             /\ ~FLess(Whole(tolerance), g2.disk_stars.rscale) /\ g2.disk_stars.mass > 0
        THEN Thrown("Galaxy with extremely small size, rdisk_stars < 1e-10, in physical model",
                    s2, g2)
        ELSE IF moments /\ (isnan(g2.disk_gas.sAM) \/ isnan(g2.disk_gas.rscale))
        THEN Thrown("rgas or sAM are NaN, cannot continue at physical model", s2, g2)
        ELSE IF more_metals_than_gas(g3.disk_gas, s3)
        THEN Thrown("Galaxy has more gas mass in metals that total gas mass.", s3, g3)
        ELSE Returned(s3, g3)

\* void BasicPhysicalModel::to_galaxy(y, subhalo, galaxy, delta_t): how it
\* ends, and the subhalo and the galaxy it leaves (also when it throws after
\* its first assignments). delta_t divides the stars formed exactly.
to_galaxy(y, sub, gal, delta_t) ==
    IF y[0] < gal.disk_stars.mass
    THEN Thrown("Galaxy decreased its stellar mass after disk star formation process.",
                sub, gal)
    ELSE LET g1 == [gal EXCEPT !.disk_stars.mass = y[0], !.disk_gas.mass = y[1],
                          !.disk_stars.mass_metals = y[5], !.disk_gas.mass_metals = y[6],
                          !.sfr_disk = @ + (y[10] \div delta_t),
                          !.sfr_z_disk = @ + (y[11] \div delta_t)]
        s1 == [sub EXCEPT !.cold_halo_gas.mass = y[2], !.hot_halo_gas.mass = y[3],
                          !.ejected_galaxy_gas.mass = y[4],
                          !.cold_halo_gas.mass_metals = y[7],
                          !.hot_halo_gas.mass_metals = y[8],
                          !.ejected_galaxy_gas.mass_metals = y[9]]
        moments == y[12].n > 0 /\ y[13].n > 0
        stars_sAM == Over(y[12], g1.disk_stars.mass)
        gas_sAM == Over(y[13], g1.disk_gas.mass)
        g2 == IF moments
              THEN [g1 EXCEPT !.disk_stars.sAM = stars_sAM, !.disk_gas.sAM = gas_sAM,
                              !.disk_stars.rscale = Times(Over(stars_sAM, gal.vmax), EAGLEJconv),
                              !.disk_gas.rscale = Times(Over(gas_sAM, gal.vmax), EAGLEJconv)]
              ELSE g1
        s2 == IF moments
              THEN [s1 EXCEPT !.cold_halo_gas.sAM = Over(y[14], s1.cold_halo_gas.mass),
                              !.hot_halo_gas.sAM = Over(y[15], s1.hot_halo_gas.mass),
                              !.ejected_galaxy_gas.sAM = Over(y[16], s1.ejected_galaxy_gas.mass)]
              ELSE s1
        g3 == [g2 EXCEPT !.disk_stars = snap_mass(snap_metals(@)),
                         !.disk_gas = snap_mass(snap_metals(@))]
        s3 == [s2 EXCEPT !.cold_halo_gas = snap_mass(snap_metals(@)),
                         !.hot_halo_gas = snap_mass(snap_metals(@)),
                         !.ejected_galaxy_gas = snap_mass(snap_metals(@))]
    IN  IF moments /\ g2.disk_stars.rscale.d # 0
             /\ ~FLess(Whole(tolerance), g2.disk_stars.rscale) /\ g2.disk_stars.mass > 0
        THEN Thrown("Galaxy with extremely small size, rdisk_stars < 1e-10, in physical model",
                    s2, g2)
        ELSE IF moments /\ (isnan(g2.disk_gas.sAM) \/ isnan(g2.disk_gas.rscale))
        THEN Thrown("rgas or sAM are NaN, cannot continue at physical model", s2, g2)
        ELSE IF more_metals_than_gas(g3.disk_gas, s3)
        THEN Thrown("Galaxy has more gas mass in metals that total gas mass.", s3, g3)
        ELSE Returned(s3, g3)

\* burst_buckets with the two buckets exchanged.
burst_buckets_swapped(y, gal, delta_t, from_galaxy_merger) ==
    IF ~from_galaxy_merger
    THEN [gal EXCEPT !.galaxymergers_burst_stars.mass = @ + (y[0] - gal.bulge_stars.mass),
                     !.galaxymergers_burst_stars.mass_metals =
                          @ + (y[5] - gal.bulge_stars.mass_metals),
                     !.sfr_bulge_mergers = @ + (y[10] \div delta_t),
                     !.sfr_z_bulge_mergers = @ + (y[11] \div delta_t)]
    ELSE [gal EXCEPT !.diskinstabilities_burst_stars.mass = @ + (y[0] - gal.bulge_stars.mass),
                     !.diskinstabilities_burst_stars.mass_metals =
                          @ + (y[5] - gal.bulge_stars.mass_metals),
                     !.sfr_bulge_diskins = @ + (y[10] \div delta_t),
                     !.sfr_z_bulge_diskins = @ + (y[11] \div delta_t)]

\* The burst stars and rates of a starburst, added to the bucket of its
\* trigger.
burst_buckets(y, gal, delta_t, from_galaxy_merger) ==
    IF from_galaxy_merger
    THEN [gal EXCEPT !.galaxymergers_burst_stars.mass = @ + (y[0] - gal.bulge_stars.mass),
                     !.galaxymergers_burst_stars.mass_metals =
                          @ + (y[5] - gal.bulge_stars.mass_metals),
                     !.sfr_bulge_mergers = @ + (y[10] \div delta_t),
                     !.sfr_z_bulge_mergers = @ + (y[11] \div delta_t)]
    ELSE [gal EXCEPT !.diskinstabilities_burst_stars.mass = @ + (y[0] - gal.bulge_stars.mass),
                     !.diskinstabilities_burst_stars.mass_metals =
                          @ + (y[5] - gal.bulge_stars.mass_metals),
                     !.sfr_bulge_diskins = @ + (y[10] \div delta_t),
                     !.sfr_z_bulge_diskins = @ + (y[11] \div delta_t)]

\* to_galaxy_starburst that tests the stellar mass after its assignments.
to_galaxy_starburst_late_check(y, sub, gal, delta_t, from_galaxy_merger) ==
    LET g1 == [burst_buckets(y, gal, delta_t, from_galaxy_merger) EXCEPT
                     !.bulge_stars.mass = y[0], !.bulge_gas.mass = y[1],
                     !.bulge_stars.mass_metals = y[5], !.bulge_gas.mass_metals = y[6]]
        s1 == [sub EXCEPT !.hot_halo_gas.mass = y[3], !.ejected_galaxy_gas.mass = y[4],
                          !.hot_halo_gas.mass_metals = y[8],
                          !.ejected_galaxy_gas.mass_metals = y[9]]
        g3 == [g1 EXCEPT !.bulge_stars = snap_mass(snap_metals(@)),
                         !.bulge_gas = snap_mass(snap_metals(@))]
        s3 == [s1 EXCEPT !.hot_halo_gas = snap_mass(snap_metals(@)),
                         !.ejected_galaxy_gas = snap_mass(snap_metals(@))]
    IN  IF y[0] < gal.bulge_stars.mass
        THEN Thrown("Galaxy decreased its stellar mass after burst of star formation.", s1, g1)
        ELSE IF more_metals_than_gas(g3.bulge_gas, s3)
        THEN Thrown("Galaxy has more gas mass in metals that total gas mass.", s3, g3)
        ELSE Returned(s3, g3)

\* to_galaxy_starburst that also writes the cold gas of the halo back.
to_galaxy_starburst_with_halo(y, sub, gal, delta_t, from_galaxy_merger) ==
    IF y[0] < gal.bulge_stars.mass
    THEN Thrown("Galaxy decreased its stellar mass after burst of star formation.", sub, gal)
    ELSE LET g1 == [burst_buckets(y, gal, delta_t, from_galaxy_merger) EXCEPT
                          !.bulge_stars.mass = y[0], !.bulge_gas.mass = y[1],
                          !.bulge_stars.mass_metals = y[5], !.bulge_gas.mass_metals = y[6]]
             s1 == [sub EXCEPT !.cold_halo_gas.mass = y[2], !.cold_halo_gas.mass_metals = y[7],
                               !.hot_halo_gas.mass = y[3], !.ejected_galaxy_gas.mass = y[4],
                               !.hot_halo_gas.mass_metals = y[8],
                               !.ejected_galaxy_gas.mass_metals = y[9]]
             g3 == [g1 EXCEPT !.bulge_stars = snap_mass(snap_metals(@)),
                              !.bulge_gas = snap_mass(snap_metals(@))]
             s3 == [s1 EXCEPT !.hot_halo_gas = snap_mass(snap_metals(@)),
                              !.ejected_galaxy_gas = snap_mass(snap_metals(@))]
         IN  IF more_metals_than_gas(g3.bulge_gas, s3)
             THEN Thrown("Galaxy has more gas mass in metals that total gas mass.", s3, g3)
             ELSE Returned(s3, g3)

\* void BasicPhysicalModel::to_galaxy_starburst(y, subhalo, galaxy, delta_t,
\* from_galaxy_merger)
to_galaxy_starburst(y, sub, gal, delta_t, from_galaxy_merger) ==
    IF y[0] < gal.bulge_stars.mass
    THEN Thrown("Galaxy decreased its stellar mass after burst of star formation.", sub, gal)
    ELSE LET g1 == [burst_buckets(y, gal, delta_t, from_galaxy_merger) EXCEPT
                          !.bulge_stars.mass = y[0], !.bulge_gas.mass = y[1],
                          !.bulge_stars.mass_metals = y[5], !.bulge_gas.mass_metals = y[6]]
             s1 == [sub EXCEPT !.hot_halo_gas.mass = y[3], !.ejected_galaxy_gas.mass = y[4],
                               !.hot_halo_gas.mass_metals = y[8],
                               !.ejected_galaxy_gas.mass_metals = y[9]]
             g3 == [g1 EXCEPT !.bulge_stars = snap_mass(snap_metals(@)),
                              !.bulge_gas = snap_mass(snap_metals(@))]
             s3 == [s1 EXCEPT !.hot_halo_gas = snap_mass(snap_metals(@)),
                              !.ejected_galaxy_gas = snap_mass(snap_metals(@))]
         IN  IF more_metals_than_gas(g3.bulge_gas, s3)
             THEN Thrown("Galaxy has more gas mass in metals that total gas mass.", s3, g3)
             ELSE Returned(s3, g3)

\* y0.size()
size(y) == Cardinality(DOMAIN y)

\* The marshalling of the installed model: the Basic model's, or that of a
\* variant of the same dimension NC whose vector lacks its last component.
marshal(model, y) ==
    IF model = "Basic" THEN y ELSE [i \in 0..(NC - 2) |-> y[i]]

\* get_solver that builds the solver whatever the length of y0.
get_solver_unchecked(delta_t, y0) ==
    [what |-> "solver", solver |-> ODESolver(y0, 0, delta_t)]

\* ODESolver PhysicalModel::get_solver(delta_t, y0, params): the solver, or
\* the invalid_argument it throws.
get_solver(delta_t, y0) ==
    IF size(y0) # NC
    THEN [what |-> "invalid_argument", solver |-> <<>>]
    ELSE [what |-> "solver", solver |-> ODESolver(y0, 0, delta_t)]

\* A division of fractions as doubles divide.
QuotF(a, b) ==
    IF a.d = 0 THEN a
    ELSE IF b.n = 0 THEN [n |-> IF a.n = 0 THEN 0 ELSE 1, d |-> 0]
    ELSE FDiv(a, b)

NoParams == <<>>

NoCall(model) ==
    [ entry |-> "none", model |-> model, from_galaxy_merger |-> FALSE,
      cooling_consulted |-> FALSE, params |-> NoParams, y0 |-> <<>>, integrated |-> FALSE,
      y1 |-> <<>>, what |-> "none", text |-> "", evaluations_counted |-> FALSE,
      status |-> "none", driver_reset |-> FALSE,
      pre_subhalo |-> <<>>, pre_galaxy |-> <<>> ]

\* The mass and the metal mass an integration may leave in a reservoir: a
\* mass below the tolerance with metals above it, metals below the tolerance,
\* metals within the mass, metals above the mass, and both negative.
ReservoirResults ==
    { <<tolerance - 1, MaxMass>>, <<MaxMass, tolerance - 1>>, <<MaxMass, MaxMass - 1>>,
      <<MaxMass, MaxMass + 1>>, <<-1, -1>> }

\* The angular momenta an integration may leave: none, one that gives a
\* scale radius below the tolerance, and one that gives a larger radius.
MomentResults == {0, 1, 4 * MaxMass}

\* The vector of the given reservoirs and moments, with one unit of stars
\* formed. Ejected gas without mass has no angular momentum.
ResultVector(stars, gas, cold, hot, ejected, am) ==
    [ i \in Components |->
        CASE i = 0  -> stars[1]
          [] i = 1  -> gas[1]
          [] i = 2  -> cold[1]
          [] i = 3  -> hot[1]
          [] i = 4  -> ejected[1]
          [] i = 5  -> stars[2]
          [] i = 6  -> gas[2]
          [] i = 7  -> cold[2]
          [] i = 8  -> hot[2]
          [] i = 9  -> ejected[2]
          [] i = 10 -> 1
          [] i = 11 -> 0
          [] i = 16 -> IF ejected[1] = 0 THEN Whole(0) ELSE Whole(am)
          [] OTHER  -> Whole(am) ]

\* The statuses the evaluator returns to the backend during the integration
\* of a call, whatever the collaborators answer.
EvaluatorStatuses(params, y0) ==
    { basic_physicalmodel_evaluator_status(y0, params, model, service) :
        model \in ModelParameters, service \in Services }

\* What the backend of the solver may do with the vector of a call: integrate
\* it to any of the result vectors (the ejected gas may stay without any
\* mass), or, if the evaluator returned a status other than 0, report that
\* the evaluator failed. A burst integrates no cooling gas and no angular
\* momentum.
BackendResults(params, y0) ==
    { [ status |-> "GSL_SUCCESS", t |-> 1, driver |-> [n |-> 1, fresh |-> FALSE],
        y |-> ResultVector(stars, gas, cold, hot, ejected, am) ] :
      stars \in ReservoirResults, gas \in ReservoirResults,
      cold \in IF params.burst THEN {<<0, 0>>} ELSE ReservoirResults,
      hot \in ReservoirResults, ejected \in ReservoirResults \cup {<<0, 0>>},
      am \in IF params.burst THEN {0} ELSE MomentResults }
    \cup
    { [ status |-> "GSL_EBADFUNC", t |-> 0, driver |-> [n |-> 1, fresh |-> FALSE],
        y |-> y0 ] : st \in EvaluatorStatuses(params, y0) \ {0} }

\* What follows the marshalling in both entry points: get_solver, evolve(),
\* the count of the evaluations and the write-back; the set of the ways the
\* call can end, one for each thing the backend of the solver may do.
\* The write-back is the to_galaxy or to_galaxy_starburst of the entry point.
integrate_and_write(c, sub, gal) ==
    LET got == get_solver(c.params.delta_t, c.y0)
        after(applied) ==
            LET r == evolve(got.solver, applied)
                w == IF c.params.burst
                     THEN to_galaxy_starburst(r.result.y, sub, gal, c.params.delta_t,
                                              c.from_galaxy_merger)
                     ELSE to_galaxy(r.result.y, sub, gal, c.params.delta_t)
            IN  IF r.result.kind # "returned"
                THEN [call |-> [c EXCEPT !.integrated = TRUE, !.what = r.result.kind,
                                         !.status = applied.status,
                                         !.driver_reset = r.solver.driver.fresh],
                      subhalo |-> sub, galaxy |-> gal]
                ELSE [call |-> [c EXCEPT !.integrated = TRUE, !.y1 = r.result.y,
                                         !.status = applied.status,
                                         !.driver_reset = r.solver.driver.fresh,
                                         !.evaluations_counted = TRUE,
                                         !.what = w.what, !.text = w.text],
                      subhalo |-> w.subhalo, galaxy |-> w.galaxy]
    IN  IF got.what # "solver"
        THEN { [call |-> [c EXCEPT !.what = got.what,
                                   !.text = "# initial values != ODE components"],
                subhalo |-> sub, galaxy |-> gal] }
        ELSE { after(applied) : applied \in BackendResults(c.params, c.y0) }

\* evolve_galaxy that asks for cooling for every galaxy that has a subhalo of
\* its own.
PhysicalModel_evolve_galaxy_type1(model, sub, gal, z, delta_t, rate) ==
    LET consult == gal.galaxy_type # "TYPE2"
        mcoolrate == IF consult THEN rate ELSE 0
        no_disk == gal.disk_gas.rscale.n <= 0
        rgas == IF no_disk THEN Times(Over(sub.cold_halo_gas.sAM, gal.vmax), EAGLEJconv)
                ELSE gal.disk_gas.rscale
        vgal == IF no_disk THEN Whole(gal.vmax)
                ELSE Times(QuotF(gal.disk_gas.sAM, gal.disk_gas.rscale), EAGLEJconv)
        params == [ rgas |-> rgas, rstar |-> gal.disk_stars.rscale, mcoolrate |-> mcoolrate,
                    jcold_halo |-> sub.cold_halo_gas.sAM, delta_t |-> delta_t,
                    redshift |-> z, vsubh |-> sub.Vvir, vgal |-> vgal, burst |-> FALSE ]
        c == [NoCall(model) EXCEPT !.entry = "evolve_galaxy", !.cooling_consulted = consult,
                                   !.params = params,
                                   !.y0 = marshal(model, from_galaxy(sub, gal)),
                                   !.pre_subhalo = sub, !.pre_galaxy = gal]
    IN  integrate_and_write(c, sub, gal)

\* void PhysicalModel::evolve_galaxy(subhalo, galaxy, z, delta_t): the ways
\* the call can end. rate is what GasCooling::cooling_rate answers if it is
\* asked.
PhysicalModel_evolve_galaxy(model, sub, gal, z, delta_t, rate) ==
    LET consult == gal.galaxy_type = "CENTRAL"
        mcoolrate == IF consult THEN rate ELSE 0
        no_disk == gal.disk_gas.rscale.n <= 0
        rgas == IF no_disk THEN Times(Over(sub.cold_halo_gas.sAM, gal.vmax), EAGLEJconv)
                ELSE gal.disk_gas.rscale
        vgal == IF no_disk THEN Whole(gal.vmax)
                ELSE Times(QuotF(gal.disk_gas.sAM, gal.disk_gas.rscale), EAGLEJconv)
        params == [ rgas |-> rgas, rstar |-> gal.disk_stars.rscale, mcoolrate |-> mcoolrate,
                    jcold_halo |-> sub.cold_halo_gas.sAM, delta_t |-> delta_t,
                    redshift |-> z, vsubh |-> sub.Vvir, vgal |-> vgal, burst |-> FALSE ]
        c == [NoCall(model) EXCEPT !.entry = "evolve_galaxy", !.cooling_consulted = consult,
                                   !.params = params,
                                   !.y0 = marshal(model, from_galaxy(sub, gal)),
                                   !.pre_subhalo = sub, !.pre_galaxy = gal]
    IN  integrate_and_write(c, sub, gal)

\* void PhysicalModel::evolve_galaxy_starburst(subhalo, galaxy, z, delta_t,
\* from_galaxy_merger)
PhysicalModel_evolve_galaxy_starburst(model, sub, gal, z, delta_t, from_galaxy_merger) ==
    LET params == [ rgas |-> gal.bulge_gas.rscale, rstar |-> gal.bulge_stars.rscale,
                    mcoolrate |-> 0, jcold_halo |-> Whole(0), delta_t |-> delta_t,
                    redshift |-> z, vsubh |-> sub.Vvir,
                    vgal |-> QuotF(gal.bulge_gas.sAM, gal.bulge_gas.rscale), burst |-> TRUE ]
        c == [NoCall(model) EXCEPT !.entry = "evolve_galaxy_starburst",
                                   !.from_galaxy_merger = from_galaxy_merger,
                                   !.params = params,
                                   !.y0 = marshal(model, from_galaxy_starburst(sub, gal)),
                                   !.pre_subhalo = sub, !.pre_galaxy = gal]
    IN  integrate_and_write(c, sub, gal)

\* The rates GasCooling::cooling_rate answers.
CoolingRates == {1}

InitPhys ==
    /\ NoTree
    /\ NoInstances
    /\ solver = <<>>
    /\ result = <<>>
    /\ feedback = <<>>
    /\ evaluation = <<>>
    /\ subhalo = PhysSubhalo
    /\ \E type \in GalaxyTypes, m \in {0, tolerance - 1, MaxMass} :
          galaxy = PhysGalaxy(type, m)
    /\ \E model \in {"Basic", "Truncated"} : call = NoCall(model)

\* One call of evolve_galaxy on the galaxy of the state.
EvolveGalaxy ==
    /\ call.entry = "none"
    /\ \E rate \in CoolingRates :
          \E r \in PhysicalModel_evolve_galaxy(call.model, subhalo, galaxy, 0, 1, rate) :
              /\ call' = r.call
              /\ subhalo' = r.subhalo
              /\ galaxy' = r.galaxy
    /\ UNCHANGED <<treeVars, odeVars, ownVars, feedback, evaluation>>

\* One call of evolve_galaxy_starburst on the galaxy of the state.
EvolveGalaxyStarburst ==
    /\ call.entry = "none"
    /\ \E from_galaxy_merger \in BOOLEAN :
          \E r \in PhysicalModel_evolve_galaxy_starburst(call.model, subhalo, galaxy, 0, 1,
                                                         from_galaxy_merger) :
              /\ call' = r.call
              /\ subhalo' = r.subhalo
              /\ galaxy' = r.galaxy
    /\ UNCHANGED <<treeVars, odeVars, ownVars, feedback, evaluation>>

NextPhys == EvolveGalaxy \/ EvolveGalaxyStarburst

SpecPhys == InitPhys /\ [][NextPhys]_vars

----------------------------------------------------------------------------
(* Properties of the stellar feedback *)

\* The host velocity of the call of the state.
FeedbackV == host_velocity(feedback.parameters, feedback.vsubh, feedback.vgal)

\* The call of the state went past the degenerate cases.
FeedbackValid == feedback.called /\ feedback.sfr > 0 /\ FeedbackV > 0

\* C14, as claimed: for every input with SFR > 0 and host velocity > 0, under
\* every model and parameter setting, outflow_rate returns b1 > b2 >= 0,
\* also when the computed ejected loading equals the reheating loading.
\* Violated: the loadings are swapped and b1 raised by EPS3 only when b2 > b1
\* (line 170), so equal loadings are returned equal.
C14_Original ==
    FeedbackValid =>
        /\ FLess(feedback.loading.b2, feedback.loading.b1)
        /\ feedback.loading.b2.n >= 0

\* C15: outflow_rate returns b1 = 0 and b2 = 0 whenever SFR <= 0 or the
\* selected host velocity is <= 0, whatever the other velocity and the model.
C15_DegenerateZero ==
    (feedback.called /\ (feedback.sfr <= 0 \/ FeedbackV <= 0)) =>
        /\ feedback.loading.b1 = Whole(0)
        /\ feedback.loading.b2 = Whole(0)

\* A call with a positive SFR and a positive subhalo velocity under
\* galaxy_scaling, whose galaxy velocity is zero.
C15_Witness ==
    /\ feedback.called
    /\ feedback.parameters.galaxy_scaling
    /\ feedback.sfr > 0
    /\ feedback.vsubh > 0
    /\ feedback.vgal = 0
    /\ feedback.loading = NoLoading

\* The ejected mass the energy implies in the call of the state.
FeedbackMejected == implied_mejected(feedback.parameters, feedback.sfr, FeedbackV, feedback.z)

----------------------------------------------------------------------------
(* Properties of the equations of the Basic model *)

\* C17: the Basic evaluator conserves mass between reservoirs: the cooling
\* term added to the disk-gas derivative f[1] equals the term removed from
\* the halo cold-gas derivative f[2], and f[0]+f[1]+f[2]+f[3]+f[4] is zero
\* for every star formation rate, recycled fraction, cooling rate and
\* feedback loadings.
C17_MassConserved ==
    evaluation.called =>
        LET f == evaluation.f
            SFR == Whole(evaluation.service.SFR)
            consumed == FMul(FAdd(FSub(Whole(1), evaluation.model.recycle),
                                  evaluation.service.beta1), SFR)
        IN  /\ FAdd(f[1], consumed) = FSub(Whole(0), f[2])
            /\ FAdd(f[1], consumed) = Whole(evaluation.params.mcoolrate)
            /\ FAdd(FAdd(FAdd(FAdd(f[0], f[1]), f[2]), f[3]), f[4]) = Whole(0)

\* An evaluation with cooling, star formation, recycling and both loadings
\* at work.
C17_Witness ==
    /\ evaluation.called
    /\ evaluation.params.mcoolrate > 0
    /\ evaluation.service.SFR > 0
    /\ evaluation.model.recycle.n > 0
    /\ evaluation.service.beta2.n > 0
    /\ FLess(evaluation.service.beta2, evaluation.service.beta1)
    /\ evaluation.f[4].n > 0
    /\ evaluation.f[2].n < 0

----------------------------------------------------------------------------
(* Properties of the physical model *)

Called == call.entry # "none"
Burst == call.entry = "evolve_galaxy_starburst"
ReturnedNormally == Called /\ call.what = "returned"

\* The stars the entry point of the call works on, before and after it.
StarsBefore == IF Burst THEN call.pre_galaxy.bulge_stars ELSE call.pre_galaxy.disk_stars
StarsAfter  == IF Burst THEN galaxy.bulge_stars ELSE galaxy.disk_stars

\* The reservoirs the write-back of the call assigns, each with the places
\* of its mass and of its metals in the state vector.
Written ==
    IF Burst
    THEN { [now |-> galaxy.bulge_stars, m |-> 0, z |-> 5],
           [now |-> galaxy.bulge_gas, m |-> 1, z |-> 6],
           [now |-> subhalo.hot_halo_gas, m |-> 3, z |-> 8],
           [now |-> subhalo.ejected_galaxy_gas, m |-> 4, z |-> 9] }
    ELSE { [now |-> galaxy.disk_stars, m |-> 0, z |-> 5],
           [now |-> galaxy.disk_gas, m |-> 1, z |-> 6],
           [now |-> subhalo.cold_halo_gas, m |-> 2, z |-> 7],
           [now |-> subhalo.hot_halo_gas, m |-> 3, z |-> 8],
           [now |-> subhalo.ejected_galaxy_gas, m |-> 4, z |-> 9] }

\* C11: evolve_galaxy and evolve_galaxy_starburst raise an invalid-argument
\* error whenever the length of the marshalled state vector differs from NC,
\* before any integration runs and before any field of the galaxy or of the
\* subhalo is written.
C11_LengthChecked ==
    (Called /\ size(call.y0) # NC) =>
        /\ call.what = "invalid_argument"
        /\ call.text = "# initial values != ODE components"
        /\ ~call.integrated
        /\ call.y1 = <<>>
        /\ subhalo = call.pre_subhalo
        /\ galaxy = call.pre_galaxy

\* A call on a central galaxy, for which the cooling was asked first, under
\* a model whose vector is one component short.
C11_Witness ==
    /\ call.entry = "evolve_galaxy"
    /\ call.cooling_consulted
    /\ size(call.y0) = NC - 1
    /\ call.what = "invalid_argument"

\* C12: in evolve_galaxy the gas cooling is consulted only when the galaxy is
\* CENTRAL; for TYPE1 and TYPE2 galaxies the cooling rate passed to the
\* integration is zero.
C12_CoolingOnlyCentral ==
    call.entry = "evolve_galaxy" =>
        /\ call.cooling_consulted <=> call.pre_galaxy.galaxy_type = "CENTRAL"
        /\ call.pre_galaxy.galaxy_type # "CENTRAL" => call.params.mcoolrate = 0

\* An integration of a TYPE1 galaxy, next to which a central one would get
\* the rate of the cooling.
C12_Witness ==
    /\ call.entry = "evolve_galaxy"
    /\ call.integrated
    /\ call.pre_galaxy.galaxy_type = "TYPE1"
    /\ call.params.mcoolrate = 0
    /\ ~call.cooling_consulted

\* C13: a starburst integration never receives cooling gas:
\* evolve_galaxy_starburst passes cooling rate 0, infall angular momentum 0
\* and burst = true, so f[2], f[7] and f[14] are zero whatever the
\* collaborators answer, and the cold halo gas of the subhalo is the same
\* before and after the call.
C13_StarburstNoCooling ==
    Burst =>
        /\ call.params.mcoolrate = 0
        /\ call.params.jcold_halo = Whole(0)
        /\ call.params.burst
        /\ size(call.y0) = NC =>
              \A model \in ModelParameters, service \in Services :
                  LET f == basic_physicalmodel_evaluator(call.y0, call.params, model, service)
                  IN  f[2] = Whole(0) /\ f[7] = Whole(0) /\ f[14] = Whole(0)
        /\ subhalo.cold_halo_gas = call.pre_subhalo.cold_halo_gas

\* A starburst that returned, on a subhalo with cold halo gas, and whose hot
\* gas was written.
C13_Witness ==
    /\ Burst
    /\ call.what = "returned"
    /\ subhalo.cold_halo_gas.mass > 0
    /\ subhalo.cold_halo_gas.sAM.n > 0
    /\ subhalo.hot_halo_gas # call.pre_subhalo.hot_halo_gas

\* C18, as claimed: after every call that returns normally the stellar mass
\* of the disk (of the bulge) is at least its value before the call, also
\* when it lies below the tolerance. Violated: a stellar mass below the
\* tolerance that the integration does not raise above it is reset to zero.
C18_Original == ReturnedNormally => StarsAfter.mass >= StarsBefore.mass

\* C18, amended: after every call that returns normally the stellar mass is
\* at least its value before the call, unless that value was below the
\* tolerance: then it may have been reset to zero.
C18_StellarMass ==
    ReturnedNormally =>
        \/ StarsAfter.mass >= StarsBefore.mass
        \/ StarsBefore.mass < tolerance /\ StarsAfter.mass = 0

\* A disk whose stars were below the tolerance and stayed there: the call
\* returned and left it without stars.
C18_Witness ==
    /\ ReturnedNormally
    /\ ~Burst
    /\ StarsBefore.mass = tolerance - 1
    /\ call.y1[0] = tolerance - 1
    /\ StarsAfter.mass = 0

\* C19, as claimed: after a normal return every reservoir written has
\* mass >= 0, mass_metals >= 0 and mass_metals <= mass, and a result vector
\* with more metals than mass in one of them raises a fatal error. Violated:
\* the final test looks at the gas of the galaxy, the hot gas and the ejected
\* gas only, not at the stars nor at the cold halo gas.
C19_Original ==
    ReturnedNormally =>
        \A r \in Written :
            r.now.mass >= 0 /\ r.now.mass_metals >= 0 /\ r.now.mass_metals <= r.now.mass

\* C20: after a normal return every reservoir whose integrated mass is below
\* the tolerance has mass = 0 and mass_metals = 0, and every reservoir whose
\* integrated metal mass is below the tolerance has mass_metals = 0.
C20_Snapped ==
    ReturnedNormally =>
        \A r \in Written :
            /\ call.y1[r.m] < tolerance => r.now.mass = 0 /\ r.now.mass_metals = 0
            /\ call.y1[r.z] < tolerance => r.now.mass_metals = 0

\* A normal return on a vector with a gas mass below the tolerance under
\* metals above it, and with hot gas whose metals are below the tolerance.
C20_Witness ==
    /\ ReturnedNormally
    /\ call.y1[1] = tolerance - 1
    /\ call.y1[6] >= tolerance
    /\ call.y1[3] >= tolerance
    /\ call.y1[8] = tolerance - 1
    /\ subhalo.hot_halo_gas.mass = call.y1[3]
    /\ subhalo.hot_halo_gas.mass_metals = 0

\* The write-back of the call ran: the solver returned a vector.
WroteBack == Called /\ call.y1 # <<>>

\* C21: to_galaxy (to_galaxy_starburst) raises a fatal error whenever the
\* integrated stellar mass y[0] is lower than the stellar mass the disk (the
\* bulge) had before the call, and it raises it before any field of the
\* galaxy or of the subhalo is written.
C21_DecreaseIsFatal ==
    (WroteBack /\ call.y1[0] < StarsBefore.mass) =>
        /\ call.what = "invalid_argument"
        /\ call.text = IF Burst
                       THEN "Galaxy decreased its stellar mass after burst of star formation."
                       ELSE "Galaxy decreased its stellar mass after disk star formation process."
        /\ galaxy = call.pre_galaxy
        /\ subhalo = call.pre_subhalo

\* A starburst whose integration lowered the stars of the bulge and changed
\* its gas and the hot gas of the halo: the error was raised.
C21_Witness ==
    /\ Burst
    /\ WroteBack
    /\ call.y1[0] < call.pre_galaxy.bulge_stars.mass
    /\ call.y1[1] # call.pre_galaxy.bulge_gas.mass
    /\ call.y1[3] # call.pre_subhalo.hot_halo_gas.mass
    /\ call.what = "invalid_argument"

\* The accumulators of the two buckets of a galaxy: burst stars, their
\* metals, and the two rates.
MergerBucket(gal) ==
    << gal.galaxymergers_burst_stars.mass, gal.galaxymergers_burst_stars.mass_metals,
       gal.sfr_bulge_mergers, gal.sfr_z_bulge_mergers >>
InstabilityBucket(gal) ==
    << gal.diskinstabilities_burst_stars.mass, gal.diskinstabilities_burst_stars.mass_metals,
       gal.sfr_bulge_diskins, gal.sfr_z_bulge_diskins >>

\* What a starburst adds to its bucket: the stars formed, their metals, and
\* the stars and metals formed per unit of time.
BurstGain ==
    << call.y1[0] - call.pre_galaxy.bulge_stars.mass,
       call.y1[5] - call.pre_galaxy.bulge_stars.mass_metals,
       call.y1[10] \div call.params.delta_t, call.y1[11] \div call.params.delta_t >>

\* C22: to_galaxy_starburst, once past its test of the stellar mass, adds
\* the newly formed bulge stars (y[0] minus the bulge stellar mass before the
\* call), their metals and the burst star formation rates to exactly one
\* bucket: the galaxy-merger accumulators when the trigger flag is true, the
\* disk-instability accumulators when it is false; the accumulators of the
\* other bucket stay as they were.
C22_OneBucket ==
    (Burst /\ WroteBack /\ ~(call.y1[0] < call.pre_galaxy.bulge_stars.mass)) =>
        LET gained(before) == [k \in 1..4 |-> before[k] + BurstGain[k]]
        IN  IF call.from_galaxy_merger
            THEN /\ MergerBucket(galaxy) = gained(MergerBucket(call.pre_galaxy))
                 /\ InstabilityBucket(galaxy) = InstabilityBucket(call.pre_galaxy)
            ELSE /\ InstabilityBucket(galaxy) = gained(InstabilityBucket(call.pre_galaxy))
                 /\ MergerBucket(galaxy) = MergerBucket(call.pre_galaxy)

\* A burst triggered by a disk instability that formed stars and returned.
C22_Witness ==
    /\ Burst
    /\ ~call.from_galaxy_merger
    /\ call.what = "returned"
    /\ call.y1[0] > call.pre_galaxy.bulge_stars.mass
    /\ galaxy.diskinstabilities_burst_stars.mass > 0
    /\ galaxy.sfr_bulge_diskins > 0
    /\ galaxy.galaxymergers_burst_stars.mass = 0

----------------------------------------------------------------------------
(* C23 *)

\* The properties a TYPE2 galaxy keeps of the subhalo it lost.
Type2Properties(gal) == <<gal.concentration_type2, gal.msubhalo_type2, gal.lambda_type2>>

\* C23: when adjust_main_galaxy makes the principal galaxy of a transferred
\* subhalo a TYPE2, the galaxy's concentration_type2, msubhalo_type2 and
\* lambda_type2 become the subhalo's concentration, Mvir and lambda; when the
\* new type is CENTRAL or TYPE1 the three fields are left as they were.
C23_Type2Inherits ==
    Ran => \A i \in run.transferred :
        LET g == PrincipalBefore(i)
        IN  g # NoGalaxy =>
              IF galaxies[g].galaxy_type = "TYPE2"
              THEN Type2Properties(galaxies[g])
                     = <<Pre(i).concentration, Pre(i).Mvir, Pre(i).lambda>>
              ELSE Type2Properties(galaxies[g]) = Type2Properties(run.pre_galaxies[g])

\* One call made the principal galaxy of a subhalo that is no main
\* progenitor a TYPE2 with the properties of that subhalo, and kept the
\* principal galaxy of a main progenitor as it was.
C23_Witness ==
    /\ Ran
    /\ \E i, j \in run.transferred :
        /\ PrincipalBefore(i) # NoGalaxy
        /\ PrincipalBefore(j) # NoGalaxy
        /\ ~Pre(i).main_progenitor
        /\ galaxies[PrincipalBefore(i)].galaxy_type = "TYPE2"
        /\ galaxies[PrincipalBefore(i)].concentration_type2 = Pre(i).concentration
        /\ galaxies[PrincipalBefore(i)].msubhalo_type2 = Pre(i).Mvir
        /\ Pre(i).concentration # 0
        /\ Pre(j).main_progenitor
        /\ galaxies[PrincipalBefore(j)].galaxy_type # "TYPE2"
        /\ galaxies[PrincipalBefore(j)].concentration_type2 = 0

----------------------------------------------------------------------------
(* C25 *)

\* The subhalos the last transfer found with descendant d.
ProgenitorsBefore(d) == {i \in RunSubhalos : Pre(i).descendant = d}

\* The descendants of the subhalos the last transfer visited.
RunDescendants == {Pre(i).descendant : i \in RunSubhalos} \ {NoSubhalo}

\* The last transfer found at most one main progenitor for every descendant.
OneMainProgenitor ==
    \A d \in RunDescendants :
        Cardinality({i \in ProgenitorsBefore(d) : Pre(i).main_progenitor}) <= 1

\* The galaxies of the given type that a subhalo owns.
Owned(sub, gals, type) == {g \in Range(sub.galaxies) : gals[g].galaxy_type = type}

\* The composition rules: a central subhalo owns at most one CENTRAL galaxy
\* and no TYPE1 galaxy; a satellite subhalo owns at most one TYPE1 galaxy and
\* no CENTRAL galaxy.
WellComposed(sub, gals) ==
    IF sub.subhalo_type = "CENTRAL"
    THEN Cardinality(Owned(sub, gals, "CENTRAL")) <= 1 /\ Owned(sub, gals, "TYPE1") = {}
    ELSE Cardinality(Owned(sub, gals, "TYPE1")) <= 1 /\ Owned(sub, gals, "CENTRAL") = {}

\* C25: if the transfer finds at most one main progenitor for every
\* descendant and every progenitor composed by the rules, then after the
\* call, however it ended, every central descendant owns at most one CENTRAL
\* galaxy and no TYPE1 galaxy, and every satellite descendant owns at most
\* one TYPE1 galaxy and no CENTRAL galaxy; the last loop of the call raises
\* no error.
C25_DescendantsComposed ==
    ( /\ Ran
      /\ OneMainProgenitor
      /\ \A d \in RunDescendants : \A i \in ProgenitorsBefore(d) :
             WellComposed(Pre(i), run.pre_galaxies) )
    => /\ \A d \in RunDescendants : WellComposed(subhalos[d], galaxies)
       /\ run.outcome # "invalid_data"

\* Two subhalos with a principal galaxy each merged into a central
\* descendant, which owns one CENTRAL galaxy and the other galaxies as TYPE2.
C25_Witness ==
    /\ run.outcome = "ok"
    /\ OneMainProgenitor
    /\ \E d \in RunDescendants :
        /\ \E i, j \in ProgenitorsBefore(d) \cap run.transferred :
              /\ i # j
              /\ PrincipalBefore(i) # NoGalaxy
              /\ PrincipalBefore(j) # NoGalaxy
              /\ Pre(i).main_progenitor
        /\ subhalos[d].subhalo_type = "CENTRAL"
        /\ Cardinality(Owned(subhalos[d], galaxies, "CENTRAL")) = 1
        /\ Cardinality(Owned(subhalos[d], galaxies, "TYPE2")) >= 2

----------------------------------------------------------------------------
(* C26 *)

\* The principal galaxy of subhalo i in the current state.
Principal(i) ==
    IF subhalos[i].subhalo_type = "CENTRAL"
    THEN central_galaxy(subhalos[i], galaxies)
    ELSE type1_galaxy(subhalos[i], galaxies)

\* C26: TYPE2 is absorbing under the transfer protocol: in no step does a
\* galaxy of type TYPE2 get another type, and a step changes the type of at
\* most one galaxy of each subhalo, which is the principal galaxy of that
\* subhalo.
C26_Type2Absorbing ==
    [][ /\ \A g \in GalaxyIds :
              galaxies[g].galaxy_type = "TYPE2" => galaxies'[g].galaxy_type = "TYPE2"
        /\ \A i \in SubhaloIds :
              {g \in Range(subhalos[i].galaxies) :
                    galaxies'[g].galaxy_type # galaxies[g].galaxy_type} \subseteq {Principal(i)}
      ]_vars

\* The transfer of the second snapshot moved a galaxy that was a TYPE2 and
\* stayed one, and changed the type of the principal galaxy of its subhalo.
C26_Witness ==
    /\ Ran
    /\ run.snapshot = 1
    /\ \E g, h \in GalaxyIds :
        /\ run.moves[g] = 1
        /\ run.moves[h] = 1
        /\ run.pre_galaxies[g].galaxy_type = "TYPE2"
        /\ galaxies[g].galaxy_type = "TYPE2"
        /\ run.pre_galaxies[h].galaxy_type = "CENTRAL"
        /\ galaxies[h].galaxy_type # "CENTRAL"

----------------------------------------------------------------------------
(* C27 *)

\* The orders in which the subhalos of the last transfer can be visited.
VisitingOrders ==
    {o \in [1..Len(RunOrder) -> RunSubhalos] : Range(o) = RunSubhalos}

\* The second loop of the last transfer, run again from the tables it
\* started from with the subhalos visited in the given order.
Replay(order) ==
    transfer_loop([ subs |-> run.pre_subhalos, gals |-> run.pre_galaxies,
                    ledger |-> run.pre_ledger,
                    subhalos_without_descendant |-> 0, baryon_mass_loss |-> 0,
                    outcome |-> "ok", failed_at |-> NoSubhalo,
                    transferred |-> {}, moves |-> [g \in GalaxyIds |-> 0] ], order)

\* What the claim calls the state of a descendant: its three gas reservoirs,
\* its cooling tracking, and the galaxies it owns with their types.
DescendantState(sub, gals) ==
    [ gas |-> Gas(sub), cooling_subhalo_tracking |-> sub.cooling_subhalo_tracking,
      galaxies |-> {<<g, gals[g].galaxy_type>> : g \in Range(sub.galaxies)} ]

\* C27: with at most one main progenitor per descendant, the state every
\* descendant has after a call that returned (gas reservoirs, cooling
\* tracking, galaxies owned and their types) is the one the call leaves in
\* any other visiting order of the subhalos; the cooling tracking is that of
\* the transferred main progenitor, and the descendant's own if no main
\* progenitor was transferred.
C27_OrderIndependent ==
    (run.outcome = "ok" /\ OneMainProgenitor) =>
        \A d \in RunDescendants :
            /\ \A order \in VisitingOrders :
                  LET r == Replay(order)
                  IN  /\ r.outcome = "ok"
                      /\ DescendantState(r.subs[d], r.gals)
                            = DescendantState(subhalos[d], galaxies)
            /\ LET mains == {i \in ProgenitorsBefore(d) \cap run.transferred :
                                Pre(i).main_progenitor}
               IN  subhalos[d].cooling_subhalo_tracking \in
                     IF mains = {} THEN {Pre(d).cooling_subhalo_tracking}
                     ELSE {Pre(i).cooling_subhalo_tracking : i \in mains}

\* Two subhalos were transferred into one descendant, the one visited first
\* being its main progenitor: the descendant has the cooling tracking of
\* that one and the gas of both.
C27_Witness ==
    /\ run.outcome = "ok"
    /\ OneMainProgenitor
    /\ \E d \in RunDescendants : \E i, j \in ProgenitorsBefore(d) \cap run.transferred :
        /\ i < j
        /\ Pre(i).main_progenitor
        /\ ~Pre(j).main_progenitor
        /\ subhalos[d].cooling_subhalo_tracking = Pre(i).cooling_subhalo_tracking
        /\ Pre(i).cooling_subhalo_tracking # Pre(j).cooling_subhalo_tracking
        /\ Gas(subhalos[d]) = GasPlus(Gas(Pre(d)), GasPlus(Gas(Pre(i)), Gas(Pre(j))))

----------------------------------------------------------------------------
(* C28 *)

\* C28: evolve() advances its step counter on every call, also on a call
\* that raises an error: after k calls the counter is k, and the k-th call
\* gave the backend the target t0 + k*delta_t, so the call after a failed
\* k-th call targets t0 + (k+1)*delta_t and the target of the failed call is
\* not tried again.
C28_StepAlwaysAdvances ==
    result.kind # "none" =>
        /\ solver.step = result.calls
        /\ result.t_i = solver.t0 + result.calls * solver.delta_t

\* The call after a call that threw: it was given the next target and
\* reached it.
C28_Witness ==
    /\ result.kind = "returned"
    /\ result.status = "GSL_SUCCESS"
    /\ result.calls >= 2
    /\ (result.calls - 1) \in result.failed
    /\ solver.t = solver.t0 + result.calls * solver.delta_t

----------------------------------------------------------------------------
(* C24 *)

\* The live objects that hold driver d.
Holders(d) == {s \in Slots : instances[s].state = "live" /\ instances[s].driver = d}

\* C24: across construction, move construction, move assignment and
\* destruction of ODESolver objects, every driver allocated is held by at
\* most one live object at a time and is never freed twice: a driver that
\* was not freed yet is held by exactly one live object, whose destructor
\* will free it, and a driver that was freed is held by none. An object
\* moved from holds no driver that another live object holds.
C24_ExclusiveOwnership ==
    \A d \in 1..Len(heap) :
        /\ Cardinality(Holders(d)) <= 1
        /\ heap[d].frees <= 1
        /\ heap[d].frees = 0 => Cardinality(Holders(d)) = 1
        /\ heap[d].frees = 1 => Holders(d) = {}

\* Two objects swapped their drivers in a move assignment and one of them
\* was destroyed: the driver the other one had allocated was freed once, and
\* that other one holds the driver of the destroyed object. A third object
\* was moved from and holds no driver.
C24_Witness ==
    \E a, b, e \in Slots :
        /\ a # b /\ a # e /\ b # e
        /\ instances[a].state = "destroyed"
        /\ instances[b].state = "live"
        /\ instances[b].driver # NullDriver
        /\ heap[instances[b].driver].by = a
        /\ heap[instances[b].driver].frees = 0
        /\ \E d \in 1..Len(heap) : heap[d].by = b /\ heap[d].frees = 1
        /\ instances[e].state = "live"
        /\ instances[e].driver = NullDriver

----------------------------------------------------------------------------
(* C29 *)

\* C29: the evaluator of the Basic model returns status 0 on every
\* invocation, whatever the state vector, the parameter bundle and the
\* answers of its collaborators are, so through evolve_galaxy and
\* evolve_galaxy_starburst of the Basic model the backend never reports a
\* failure of the evaluator and the driver is never reset.
C29_EvaluatorNeverFails ==
    (Called /\ call.model = "Basic") =>
        /\ \A model \in ModelParameters, service \in Services :
              basic_physicalmodel_evaluator_status(call.y0, call.params, model, service) = 0
        /\ call.status # "GSL_EBADFUNC"
        /\ ~call.driver_reset

\* A starburst of the Basic model that was integrated: the backend reported
\* success and the evaluations were counted.
C29_Witness ==
    /\ Burst
    /\ call.model = "Basic"
    /\ call.integrated
    /\ call.status = "GSL_SUCCESS"
    /\ call.evaluations_counted
    /\ call.what = "returned"

----------------------------------------------------------------------------
(* C30 *)

\* The write-back of evolve_galaxy recomputed the specific angular momenta:
\* it passed its test of the stellar mass, and the integrated moments of the
\* stars and of the gas are both positive.
Recomputed ==
    /\ call.entry = "evolve_galaxy"
    /\ WroteBack
    /\ ~(call.y1[0] < call.pre_galaxy.disk_stars.mass)
    /\ call.y1[12].n > 0 /\ call.y1[12].d > 0
    /\ call.y1[13].n > 0 /\ call.y1[13].d > 0

\* A specific angular momentum that is a number: neither an infinity nor a
\* NaN.
Defined(x) == x.d # 0

\* C30, as claimed: when to_galaxy recomputes the specific angular momenta,
\* every mass it divides by is non-zero, and after a normal return every
\* reservoir has a defined specific angular momentum. Violated: nothing keeps
\* an integrated mass from being zero.
C30_Original ==
    Recomputed =>
        /\ \A r \in Written : call.y1[r.m] # 0
        /\ ReturnedNormally => \A r \in Written : Defined(r.now.sAM)

\* C30, amended: when to_galaxy recomputes the specific angular momenta, a
\* mass it divides by may be zero; a reservoir whose integrated mass is zero
\* is reset to the canonical empty state, with specific angular momentum
\* zero, before a normal return, so after a normal return no reservoir is
\* left with the result of a division by zero.
C30_NoDivisionLeft ==
    (Recomputed /\ ReturnedNormally) =>
        \A r \in Written :
            /\ call.y1[r.m] = 0 => r.now = restore_baryon
            /\ Defined(r.now.sAM)

\* The integration left no ejected gas and no angular momentum in it, next
\* to positive moments of the disk: the call returned, the ejected gas is in
\* the empty state and the hot gas has the recomputed specific angular
\* momentum.
C30_Witness ==
    /\ Recomputed
    /\ ReturnedNormally
    /\ call.y1[4] = 0
    /\ call.y1[16] = Whole(0)
    /\ subhalo.ejected_galaxy_gas = restore_baryon
    /\ call.y1[3] >= tolerance
    /\ subhalo.hot_halo_gas.sAM = Over(call.y1[15], call.y1[3])
    /\ subhalo.hot_halo_gas.sAM # call.pre_subhalo.hot_halo_gas.sAM

====
